---- MODULE Spec2Model ----
(***************************************************************************)
(* Team9 channel plugin: connection supervision (registry, watchdog,       *)
(* getConnection) and the inbound debounce stage of the message handler.   *)
(***************************************************************************)
EXTENDS Integers, Sequences, FiniteSets, TLC

(***************************************************************************)
(* Bounds                                                                  *)
(***************************************************************************)
\* number of transport client objects that may be constructed in one run
MaxClients == 2

Accounts == {"default", "work"}
\* the order in which one watchdog scan visits the accounts
AccountOrder == <<"default", "work">>

\* registry value of an accountId with no entry
NoClient == 0

\* the monitor context whose inbound pipeline is modelled: the one of the first
\* client, built for this account; the userId the server authenticates it as
CtxAccount == "default"
CtxClient == 1
BotId == "bot"
ClientIds == 1..MaxClients

(***************************************************************************)
(* Connection supervisor state                                             *)
(***************************************************************************)
VARIABLES
    activeConnections,  \* accountId -> client id of the registered Connection, NoClient if absent
    watchdogInterval,   \* TRUE iff the watchdog setInterval timer is armed
    watchdogFailures,   \* accountId -> consecutive failure count, 0 = no entry
    clients,            \* client id -> Team9WebSocketClient object state
    nextClient,         \* id of the next client object to be constructed
    lastOp,             \* the last supervisor operation and its outcome (observation)
    lastTick,           \* accountId -> what the last watchdog scan did for it (observation)
    unhealthyRun,       \* accountId -> unhealthy scans in a row while tracked (observation)
    rebuildFailed       \* accountId -> a watchdog rebuild's reconnect failed, no connection since

supVars == <<activeConnections, watchdogInterval, watchdogFailures, clients, nextClient,
             lastOp, lastTick, unhealthyRun, rebuildFailed>>

(***************************************************************************)
(* Inbound pipeline state of one monitor context (one account's handler)   *)
(***************************************************************************)
VARIABLES
    botUserId,   \* ctx.botUserId: "" until onAuthenticated has set it
    buffers,     \* debounce key -> pending batch (ordered entries), <<>> if none
    due,         \* debounce key -> time at which its quiet-window timer fires, 0 = no timer
    now,         \* current time, in ticks
    received,    \* number of inbound messages handled so far
    recent,      \* debounce key -> entries enqueued within the last quiet window (observation)
    lastIn,      \* the entry the last step enqueued, NoEntry if none (observation)
    lastFlush    \* the batches the last step handed to onFlush, in order (observation)

debVars == <<botUserId, buffers, due, now, received, recent, lastIn, lastFlush>>

(***************************************************************************)
(* The stages behind the debouncer: what the last step handed to dispatch, *)
(* and the arguments and results of the routing and mention-gate calls     *)
(***************************************************************************)
VARIABLES
    dispatched,  \* the ctxPayloads the last step handed to dispatchReplyFromConfig, in order
    effects,     \* the typing signals and replies the last step emitted, in order
    routePrev,   \* the previous routing call: arguments and route
    routeCur,    \* the latest routing call: arguments and route
    gateIn,      \* the latest group message put before the mention gate, with its context
    gateOut,     \* the gate's decision on it
    callIn,      \* the host's call of a plugin operation: its name and arguments
    callOut      \* what the call did and returned, NoCall while it has not run

(***************************************************************************)
(* What the transport client of the monitor context has learnt from the    *)
(* server: the kinds of its channels, the rooms it joined, and the         *)
(* metadata requests of onAuthenticated and onChannelJoined still running  *)
(***************************************************************************)
VARIABLES
    channelTypes,   \* this.channelTypes: channelId -> cached kind, "none" if absent
    joinedChannels, \* the channels the socket has emitted join_channel for
    botUsername,    \* ctx.botUsername: "" until getMe has answered with one
    metaFetch,      \* onAuthenticated: "idle", awaiting "getMe" or "getUserChannels", "done"
    channelFetch,   \* the channels whose getChannel (onChannelJoined) is awaited
    metaFailed      \* the metadata requests that have failed so far (observation)

cacheVars == <<channelTypes, joinedChannels, botUsername, metaFetch, channelFetch, metaFailed>>

flushVars == <<dispatched, effects>>
routeVars == <<routePrev, routeCur>>
gateVars == <<gateIn, gateOut>>
callVars == <<callIn, callOut>>
stageVars == <<flushVars, routeVars, gateVars, callVars>>

\* a client object that has not been constructed yet
FreshClient ==
    [accountId |-> "default", socket |-> "null", isConnected |-> FALSE,
     heartbeatInterval |-> FALSE, authListener |-> FALSE, promise |-> "none",
     token |-> TRUE, byWatchdog |-> FALSE]

\* Team9WebSocketClient.isActive
IsActive(cl) == cl.isConnected /\ cl.socket = "connected"

\* Team9WebSocketClient.disconnect
WsDisconnect(cl) ==
    [cl EXCEPT !.heartbeatInterval = FALSE, !.socket = "null", !.isConnected = FALSE]

\* new Team9WebSocketClient(...) followed by ws.connect() up to the promise it returns:
\* the socket is opened and the once-listeners are registered
WsConnectingClient(a, tok, byWatchdog) ==
    [accountId |-> a, socket |-> "connecting", isConnected |-> FALSE,
     heartbeatInterval |-> FALSE, authListener |-> TRUE, promise |-> "pending",
     token |-> tok, byWatchdog |-> byWatchdog]


(***************************************************************************)
(* getConnection, up to its first suspension point (await ws.connect()).   *)
(* S is the supervisor state as a record; the result is S after the call,  *)
(* with outcome "existing" (returned the registered Connection), "noToken" *)
(* (threw), "connecting" (a new client was built and its socket opened) or *)
(* "capped" (the run's client budget is used up).                          *)
(***************************************************************************)
\* the isActive test of the early return inverted
HasExistingInactive(S, a) ==
    S.conns[a] # NoClient /\ ~IsActive(S.clients[S.conns[a]])

\* existing && existing.ws.isActive()
HasExistingActive(S, a) ==
    S.conns[a] # NoClient /\ IsActive(S.clients[S.conns[a]])

\* the token check left out
TokenNeverMissing(tok) == FALSE

\* !account.token
TokenMissing(tok) == ~tok

\* the new client registered as soon as it is built
GetConnectionInstallEarly(S, a, tok, byWatchdog) ==
    IF HasExistingActive(S, a)
    THEN [S EXCEPT !.outcome = "existing"]
    ELSE IF TokenMissing(tok)
    THEN [S EXCEPT !.outcome = "noToken"]
    ELSE IF S.next > MaxClients
    THEN [S EXCEPT !.outcome = "capped"]
    ELSE [S EXCEPT !.clients[S.next] = WsConnectingClient(a, tok, byWatchdog),
                   !.conns[a] = S.next,
                   !.next = S.next + 1,
                   !.outcome = "connecting"]

GetConnection(S, a, tok, byWatchdog) ==
    IF HasExistingActive(S, a)
    THEN [S EXCEPT !.outcome = "existing"]
    ELSE IF TokenMissing(tok)
    THEN [S EXCEPT !.outcome = "noToken"]
    ELSE IF S.next > MaxClients
    THEN [S EXCEPT !.outcome = "capped"]
    ELSE [S EXCEPT !.clients[S.next] = WsConnectingClient(a, tok, byWatchdog),
                   !.next = S.next + 1,
                   !.outcome = "connecting"]

\* what one watchdog scan did for each account: how it classified it, the failure
\* count it found, the rebuilds it started and how the rebuild's getConnection went
NoScan ==
    [a \in Accounts |-> [class |-> "none", was |-> 0, rebuilds |-> 0, reconnect |-> "none"]]

\* the supervisor state the operators work on
Cur ==
    [conns |-> activeConnections, clients |-> clients, next |-> nextClient,
     fails |-> watchdogFailures, run |-> unhealthyRun,
     scan |-> NoScan, outcome |-> "none"]


(***************************************************************************)
(* Watchdog scan (the setInterval callback of startWatchdog)               *)
(***************************************************************************)
\* conn.ws.isHealthy(): the last inbound/outbound activity was recent enough
IsHealthy(recentActivity) == recentActivity

\* the healthy branch without the counter reset
OnHealthyKeepCount(S, a) == S

\* active && healthy: watchdogFailures.delete(accountId)
OnHealthy(S, a) == [S EXCEPT !.fails[a] = 0]

\* the threshold test off by one
ShouldRebuildLate(failures) == failures > 3

\* failures >= 3
ShouldRebuild(failures) == failures >= 3

\* the rebuild reconnecting with the stale client left as it is
RebuildConnectionKeepStale(S, a, tok) ==
    LET S1 == [S EXCEPT !.fails[a] = 0, !.scan[a].rebuilds = @ + 1]
        S2 == GetConnection([S1 EXCEPT !.conns[a] = NoClient], a, tok, TRUE)
    IN  [S2 EXCEPT !.conns[a] = S.conns[a], !.scan[a].reconnect = S2.outcome]

\* the background rebuild, up to the await of getConnection: delete the counter,
\* disconnect the stale client, delete the registry entry, re-resolve the
\* account (tok: whether the current configuration yields a token), reconnect
RebuildConnection(S, a, tok) ==
    LET c  == S.conns[a]
        S1 == [S EXCEPT !.fails[a] = 0,
                        !.clients[c] = WsDisconnect(@),
                        !.conns[a] = NoClient,
                        !.scan[a].rebuilds = @ + 1]
        S2 == GetConnection(S1, a, tok, TRUE)
    IN  [S2 EXCEPT !.scan[a].reconnect = S2.outcome]

\* one iteration of `for (const [accountId, conn] of activeConnections)`
WatchdogVisit(S, a, recentActivity, tok) ==
    LET c == S.conns[a] IN
    IF c = NoClient THEN S
    ELSE IF IsActive(S.clients[c]) /\ IsHealthy(recentActivity)
    THEN [OnHealthy(S, a) EXCEPT !.scan[a].class = "healthy", !.scan[a].was = S.fails[a],
                                 !.run[a] = 0]
    ELSE LET failures == S.fails[a] + 1
             S1 == [S EXCEPT !.fails[a] = failures,
                             !.scan[a].class = "unhealthy", !.scan[a].was = S.fails[a],
                             !.run[a] = IF @ >= 3 THEN 1 ELSE @ + 1]
         IN  IF ShouldRebuild(failures) THEN RebuildConnection(S1, a, tok) ELSE S1

RECURSIVE WatchdogScan(_, _, _, _)
WatchdogScan(S, i, activity, tok) ==
    IF i > Len(AccountOrder) THEN S
    ELSE WatchdogScan(WatchdogVisit(S, AccountOrder[i], activity[AccountOrder[i]],
                                    tok[AccountOrder[i]]),
                      i + 1, activity, tok)

Op(op, a, tok, outcome) ==
    [op |-> op, accountId |-> a, token |-> tok, outcome |-> outcome]

WatchdogTick ==
    /\ watchdogInterval
    /\ \E activity \in [Accounts -> BOOLEAN], tok \in [Accounts -> BOOLEAN] :
         \E S \in {WatchdogScan(Cur, 1, activity, tok)} :
         /\ \A a \in Accounts : S.scan[a].reconnect # "capped"
         /\ activeConnections' = S.conns
         /\ clients' = S.clients
         /\ nextClient' = S.next
         /\ watchdogFailures' = S.fails
         /\ unhealthyRun' = S.run
         /\ lastTick' = S.scan
    /\ lastOp' = Op("tick", "*", FALSE, "done")
    /\ UNCHANGED <<watchdogInterval, rebuildFailed>>
    /\ UNCHANGED <<debVars, stageVars, cacheVars>>


(***************************************************************************)
(* Host operations                                                         *)
(***************************************************************************)
\* isTeam9AccountConfigured: Boolean(account.token)
IsTeam9AccountConfigured(tok) == tok

\* a caller's `await getConnection(account, cfg)` up to the suspension point
CallGetConnection(a, tok) ==
    \E S \in {GetConnection(Cur, a, tok, FALSE)} :
    /\ S.outcome # "capped"
    /\ clients' = S.clients
    /\ nextClient' = S.next
    /\ lastOp' = Op("getConnection", a, tok, S.outcome)
    /\ lastTick' = NoScan
    /\ UNCHANGED <<activeConnections, watchdogInterval, watchdogFailures,
                   unhealthyRun, rebuildFailed>>
    /\ UNCHANGED <<debVars, stageVars, cacheVars>>

\* a call that returns before reaching getConnection
ReturnEarly ==
    /\ lastOp' = Op("return", "*", FALSE, "skipped")
    /\ lastTick' = NoScan
    /\ UNCHANGED <<activeConnections, watchdogInterval, watchdogFailures, clients,
                   nextClient, unhealthyRun, rebuildFailed>>
    /\ UNCHANGED <<debVars, stageVars, cacheVars>>

\* gateway.startAccount
StartAccount(a) ==
    \E tok \in BOOLEAN, enabled \in BOOLEAN :
        IF ~IsTeam9AccountConfigured(tok) THEN ReturnEarly
        ELSE IF ~enabled THEN ReturnEarly
        ELSE CallGetConnection(a, tok)

\* outbound.sendText (sendTeam9Message) and outbound.sendMedia, up to getConnection
Outbound(a) ==
    \E tok \in BOOLEAN :
        IF ~IsTeam9AccountConfigured(tok) THEN ReturnEarly
        ELSE CallGetConnection(a, tok)

\* actions.handleAction, up to getConnection
HandleAction(a) ==
    \E tok \in BOOLEAN : CallGetConnection(a, tok)

\* stopWatchdog leaving the failure counters as they are
KeepFailures == watchdogFailures

\* stopWatchdog's effect on the failure counters
ClearFailures == [a \in Accounts |-> 0]

\* gateway.stopAccount
StopAccount(a) ==
    LET c      == activeConnections[a]
        conns1 == [activeConnections EXCEPT ![a] = NoClient]
        empty  == \A b \in Accounts : conns1[b] = NoClient
        fails1 == IF c # NoClient THEN [watchdogFailures EXCEPT ![a] = 0]
                  ELSE watchdogFailures
    IN  /\ clients' = IF c # NoClient THEN [clients EXCEPT ![c] = WsDisconnect(@)]
                      ELSE clients
        /\ activeConnections' = conns1
        /\ watchdogFailures' = IF empty THEN ClearFailures ELSE fails1
        /\ watchdogInterval' = IF empty THEN FALSE ELSE watchdogInterval
        /\ unhealthyRun' = IF c # NoClient THEN [unhealthyRun EXCEPT ![a] = 0]
                           ELSE unhealthyRun
        /\ rebuildFailed' = [rebuildFailed EXCEPT ![a] = FALSE]
        /\ lastOp' = Op("stopAccount", a, FALSE, "done")
        /\ lastTick' = NoScan
        /\ UNCHANGED nextClient
        /\ UNCHANGED <<debVars, stageVars, cacheVars>>

(***************************************************************************)
(* Transport events of a client's socket                                   *)
(***************************************************************************)
\* getConnection returning without registering the connection
InstallConnectionSkipped(conns, a, c) == conns

\* the entry installed under every account's key
InstallConnectionForAll(conns, a, c) == [b \in Accounts |-> c]

\* getConnection after `await ws.connect()` returned: install and start the watchdog
InstallConnection(conns, a, c) == [conns EXCEPT ![a] = c]

\* the server's "authenticated" event: the once-listener of connect() marks the
\* client connected, starts the heartbeat, calls onAuthenticated (which records
\* the bot's userId in the client's monitor context and, without being
\* awaited, goes on to request the bot's profile) and resolves connect()
Authenticated(c) ==
    LET cl       == clients[c]
        a        == cl.accountId
        fired    == cl.authListener
        resolved == fired /\ cl.promise = "pending"
    IN  /\ cl.socket = "connecting"
        /\ clients' = [clients EXCEPT ![c] =
               [cl EXCEPT !.socket = "connected",
                          !.isConnected = IF fired THEN TRUE ELSE @,
                          !.heartbeatInterval = IF fired THEN TRUE ELSE @,
                          !.authListener = FALSE,
                          !.promise = IF resolved THEN "resolved" ELSE @,
                          !.byWatchdog = FALSE]]
        /\ activeConnections' = IF resolved THEN InstallConnection(activeConnections, a, c)
                                ELSE activeConnections
        /\ watchdogInterval' = IF resolved THEN TRUE ELSE watchdogInterval
        /\ rebuildFailed' = IF resolved THEN [rebuildFailed EXCEPT ![a] = FALSE]
                            ELSE rebuildFailed
        /\ lastOp' = Op("event", "*", FALSE, "done")
        /\ lastTick' = NoScan
        /\ botUserId' = IF fired /\ c = CtxClient THEN BotId ELSE botUserId
        /\ metaFetch' = IF fired /\ c = CtxClient THEN "getMe" ELSE metaFetch
        /\ UNCHANGED <<watchdogFailures, nextClient, unhealthyRun>>
        /\ UNCHANGED <<buffers, due, now, received, recent, lastIn, lastFlush>>
        /\ UNCHANGED <<channelTypes, joinedChannels, botUsername, channelFetch, metaFailed>>
        /\ UNCHANGED stageVars

\* the server's "auth_error" event: connect() rejects; the server drops the socket
AuthError(c) ==
    LET cl == clients[c] IN
    /\ cl.socket = "connecting"
    /\ cl.promise = "pending"
    /\ clients' = [clients EXCEPT ![c] = [cl EXCEPT !.socket = "idle", !.promise = "rejected", !.byWatchdog = FALSE]]
    /\ lastOp' = Op("event", "*", FALSE, "done")
    /\ lastTick' = NoScan
    /\ UNCHANGED <<activeConnections, watchdogInterval, watchdogFailures, nextClient,
                   unhealthyRun, rebuildFailed>>
    /\ UNCHANGED <<debVars, stageVars, cacheVars>>

\* the socket's "connect_error" event: connect() rejects if still pending; the
\* socket keeps reconnecting
ConnectError(c) ==
    LET cl      == clients[c]
        pending == cl.promise = "pending"
    IN  /\ cl.socket = "connecting"
        /\ clients' = [clients EXCEPT ![c].promise = IF pending THEN "rejected" ELSE @,
                                       ![c].byWatchdog = FALSE]
        /\ rebuildFailed' = IF pending /\ cl.byWatchdog
                            THEN [rebuildFailed EXCEPT ![cl.accountId] = TRUE]
                            ELSE rebuildFailed
        /\ lastOp' = Op("event", "*", FALSE, "done")
        /\ lastTick' = NoScan
        /\ UNCHANGED <<activeConnections, watchdogInterval, watchdogFailures, nextClient,
                       unhealthyRun>>
        /\ UNCHANGED <<debVars, stageVars, cacheVars>>

\* the socket's "disconnect" event (transport lost; socket.io reconnects)
SocketDisconnect(c) ==
    LET cl == clients[c] IN
    /\ cl.socket = "connected"
    /\ clients' = [clients EXCEPT ![c] =
           [cl EXCEPT !.socket = "connecting", !.isConnected = FALSE,
                      !.heartbeatInterval = FALSE]]
    /\ lastOp' = Op("event", "*", FALSE, "done")
    /\ lastTick' = NoScan
    /\ UNCHANGED <<activeConnections, watchdogInterval, watchdogFailures, nextClient,
                   unhealthyRun, rebuildFailed>>
    /\ UNCHANGED <<debVars, stageVars, cacheVars>>

(***************************************************************************)
(* Inbound message handler: text helpers                                   *)
(* Message content is a sequence of one-character strings.                 *)
(***************************************************************************)
RECURSIVE IndexFrom(_, _, _)
\* position of the first ch in s at or after i, 0 if none
IndexFrom(s, ch, i) ==
    IF i > Len(s) THEN 0
    ELSE IF s[i] = ch THEN i
    ELSE IndexFrom(s, ch, i + 1)

IsPrefix(pat, s) == Len(pat) <= Len(s) /\ SubSeq(s, 1, Len(pat)) = pat

RECURSIVE ReplaceAll(_, _, _)
\* String.prototype.replace with a global pattern for a literal pat
ReplaceAll(s, pat, rep) ==
    IF s = <<>> THEN <<>>
    ELSE IF IsPrefix(pat, s)
    THEN rep \o ReplaceAll(SubSeq(s, Len(pat) + 1, Len(s)), pat, rep)
    ELSE <<Head(s)>> \o ReplaceAll(Tail(s), pat, rep)

RECURSIVE StripTags(_)
\* html.replace(/<[^>]*>/g, "")
StripTags(s) ==
    IF s = <<>> THEN <<>>
    ELSE IF Head(s) = "<" /\ IndexFrom(s, ">", 2) # 0
    THEN StripTags(SubSeq(s, IndexFrom(s, ">", 2) + 1, Len(s)))
    ELSE <<Head(s)>> \o StripTags(Tail(s))

\* the entity replacements of stripHtml, in its order
DecodeEntities(s) ==
    ReplaceAll(
      ReplaceAll(
        ReplaceAll(
          ReplaceAll(
            ReplaceAll(s, <<"&", "l", "t", ";">>, <<"<">>),
            <<"&", "g", "t", ";">>, <<">">>),
          <<"&", "a", "m", "p", ";">>, <<"&">>),
        <<"&", "q", "u", "o", "t", ";">>, <<"\"">>),
      <<"&", "#", "3", "9", ";">>, <<"'">>)

RECURSIVE Trim(_)
\* String.prototype.trim
Trim(s) ==
    IF s = <<>> THEN <<>>
    ELSE IF Head(s) = " " THEN Trim(Tail(s))
    ELSE IF s[Len(s)] = " " THEN Trim(SubSeq(s, 1, Len(s) - 1))
    ELSE s

\* stripHtml
StripHtml(html) == Trim(DecodeEntities(StripTags(html)))

\* the control command the runtime recognizes
ControlCommand == <<"/", "n">>

RECURSIVE Contains(_, _)
Contains(s, pat) ==
    IF Len(s) < Len(pat) THEN FALSE
    ELSE IsPrefix(pat, s) \/ Contains(Tail(s), pat)

\* runtime.channel.text.hasControlCommand: the text contains a recognized
\* control command
HasControlCommand(text) == Contains(text, ControlCommand)

(***************************************************************************)
(* Routing: agent identifier and session key                               *)
(***************************************************************************)
\* identifiers are character sequences; the letters, in both cases
UpperLetters ==
    <<"A", "B", "C", "D", "E", "F", "G", "H", "I", "J", "K", "L", "M",
      "N", "O", "P", "Q", "R", "S", "T", "U", "V", "W", "X", "Y", "Z">>
LowerLetters ==
    <<"a", "b", "c", "d", "e", "f", "g", "h", "i", "j", "k", "l", "m",
      "n", "o", "p", "q", "r", "s", "t", "u", "v", "w", "x", "y", "z">>
Digits == {"0", "1", "2", "3", "4", "5", "6", "7", "8", "9"}

UpperSet == {UpperLetters[i] : i \in 1..Len(UpperLetters)}
LowerSet == {LowerLetters[i] : i \in 1..Len(LowerLetters)}
LowerOf ==
    [ch \in UpperSet |->
        LowerLetters[CHOOSE i \in 1..Len(UpperLetters) : UpperLetters[i] = ch]]

IsUpper(ch) == ch \in UpperSet
IsLower(ch) == ch \in LowerSet

\* the character class [a-zA-Z0-9-_]
IsSafeChar(ch) == IsUpper(ch) \/ IsLower(ch) \/ ch \in Digits \/ ch \in {"-", "_"}

\* String.prototype.toLowerCase, per character and per string
ToLowerChar(ch) == IF IsUpper(ch) THEN LowerOf[ch] ELSE ch

ToLowerCase(s) == [i \in 1..Len(s) |-> ToLowerChar(s[i])]

\* identifier.replace(/[^a-zA-Z0-9-_]/g, "-").toLowerCase()
Sanitize(identifier) ==
    ToLowerCase([i \in 1..Len(identifier) |->
                    IF IsSafeChar(identifier[i]) THEN identifier[i] ELSE "-"])

DefaultAccountId == <<"d", "e", "f", "a", "u", "l", "t">>
PrefixTeam9 == <<"t", "e", "a", "m", "9", "-">>
TagGroup == <<"g", "r", "o", "u", "p">>
TagUser == <<"u", "s", "e", "r">>
TagDm == <<"d", "m">>
PrefixAgent == <<"a", "g", "e", "n", "t", ":">>
TagChannel == <<":", "t", "e", "a", "m", "9", ":">>

\* generateTeam9AgentId keyed by the sender in every chat kind
GenerateTeam9AgentIdBySender(params) ==
    IF params.accountId # <<>> /\ params.accountId # DefaultAccountId
    THEN PrefixTeam9 \o Sanitize(params.accountId) \o <<"-">>
         \o (IF params.isGroup THEN TagGroup ELSE TagUser) \o <<"-">>
         \o Sanitize(params.senderId)
    ELSE PrefixTeam9 \o (IF params.isGroup THEN TagGroup ELSE TagUser) \o <<"-">>
         \o Sanitize(params.senderId)

\* generateTeam9AgentId
GenerateTeam9AgentId(params) ==
    IF params.accountId # <<>> /\ params.accountId # DefaultAccountId
    THEN PrefixTeam9 \o Sanitize(params.accountId) \o <<"-">>
         \o (IF params.isGroup THEN TagGroup ELSE TagUser) \o <<"-">>
         \o Sanitize(IF params.isGroup THEN params.channelId ELSE params.senderId)
    ELSE PrefixTeam9 \o (IF params.isGroup THEN TagGroup ELSE TagUser) \o <<"-">>
         \o Sanitize(IF params.isGroup THEN params.channelId ELSE params.senderId)

\* buildTeam9SessionKey: agent:<agentId>:team9:<peerKind>:<channelId>, lower-cased
BuildTeam9SessionKey(params) ==
    ToLowerCase(PrefixAgent \o params.agentId \o TagChannel
                \o (IF params.isGroup THEN TagGroup ELSE TagDm) \o <<":">>
                \o params.channelId)

\* the route of one inbound turn: handleIncomingMessage derives the agent id
\* and then the session key from it
ResolveRoute(accountId, channelId, senderId, isGroup) ==
    [agentId    |-> GenerateTeam9AgentId([senderId |-> senderId, channelId |-> channelId,
                                          isGroup |-> isGroup, accountId |-> accountId]),
     sessionKey |-> BuildTeam9SessionKey(
                       [agentId |-> GenerateTeam9AgentId(
                                       [senderId |-> senderId, channelId |-> channelId,
                                        isGroup |-> isGroup, accountId |-> accountId]),
                        channelId |-> channelId, isGroup |-> isGroup])]

(***************************************************************************)
(* Preflight: mention extraction and the group mention gate                *)
(***************************************************************************)
Whitespace == {" ", "\t", "\n"}

\* the character class \w
IsWordChar(ch) == IsUpper(ch) \/ IsLower(ch) \/ ch \in Digits \/ ch = "_"

\* pat occurs in s at position i, letter case ignored (pat is lower-case)
MatchesAt(s, i, pat) ==
    /\ i >= 1
    /\ i + Len(pat) - 1 <= Len(s)
    /\ \A j \in 1..Len(pat) : ToLowerChar(s[i + j - 1]) = pat[j]

MentionOpen == <<"<", "m", "e", "n", "t", "i", "o", "n">>
UserIdAttr == <<"d", "a", "t", "a", "-", "u", "s", "e", "r", "-", "i", "d", "=", "\"">>
NoMatch == [id |-> <<>>, end |-> 0]

\* start positions q of a data-user-id="..." attribute that completes a match
\* of the tag opened at p: no ">" before the attribute, a non-empty value up to
\* the next quote, and a ">" closing the tag after it
AttrStarts(s, p) ==
    {q \in (p + 9)..Len(s) :
        /\ MatchesAt(s, q, UserIdAttr)
        /\ (IndexFrom(s, ">", p + 9) = 0 \/ q < IndexFrom(s, ">", p + 9))
        /\ IndexFrom(s, "\"", q + Len(UserIdAttr)) > q + Len(UserIdAttr)
        /\ IndexFrom(s, ">", IndexFrom(s, "\"", q + Len(UserIdAttr)) + 1) # 0}

\* the match of /<mention\s[^>]*data-user-id="([^"]+)"[^>]*>/i anchored at p:
\* the captured id and the position of the closing ">", NoMatch if none
MentionAt(s, p) ==
    IF ~(MatchesAt(s, p, MentionOpen) /\ p + 8 <= Len(s) /\ s[p + 8] \in Whitespace)
    THEN NoMatch
    ELSE IF AttrStarts(s, p) = {} THEN NoMatch
    ELSE LET q == CHOOSE x \in AttrStarts(s, p) : \A y \in AttrStarts(s, p) : y <= x
             a == q + Len(UserIdAttr)
             c == IndexFrom(s, "\"", a)
         IN  [id |-> SubSeq(s, a, c - 1), end |-> IndexFrom(s, ">", c + 1)]

RECURSIVE ExtractFrom(_, _)
\* the regex.exec loop of extractMentionedUserIds from position i on
ExtractFrom(s, i) ==
    IF i > Len(s) THEN {}
    ELSE LET m == MentionAt(s, i)
         IN  IF m = NoMatch THEN ExtractFrom(s, i + 1)
             ELSE {m.id} \cup ExtractFrom(s, m.end + 1)

\* extractMentionedUserIds
ExtractMentionedUserIds(content) == ExtractFrom(content, 1)

\* /@\w+/.test(text)
HasAtToken(text) ==
    \E i \in 1..(Len(text) - 1) : text[i] = "@" /\ IsWordChar(text[i + 1])

\* the characters of a user id
IdChars(userId) ==
    CASE userId = "bot" -> <<"b", "o", "t">>
      [] userId = "u1"  -> <<"u", "1">>
      [] userId = "u2"  -> <<"u", "2">>
      [] OTHER          -> <<>>

\* buildAttachmentPlaceholder for n image attachments
BuildAttachmentPlaceholder(n) ==
    IF n = 0 THEN <<>>
    ELSE <<"<", "m", "e", "d", "i", "a", ":", "i", "m", "a", "g", "e", ">", " ", "(">>
         \o (IF n = 1 THEN <<"1", " ", "i", "m", "a", "g", "e">>
                      ELSE <<"n", " ", "i", "m", "a", "g", "e", "s">>)
         \o <<")">>

\* effectiveBody: the stripped text, or the placeholder of an attachment-only message
EffectiveBody(message) ==
    IF StripHtml(message.content) # <<>> THEN StripHtml(message.content)
    ELSE BuildAttachmentPlaceholder(message.attachments)

\* explicitlyMentioned with any structured mention counting as one of the bot
ExplicitlyMentionedAnyone(ctx, mentionedUserIds) ==
    ctx.botUserId # "" /\ mentionedUserIds # {}

\* explicitlyMentioned: the bot's cached userId is among the mentioned ids
ExplicitlyMentioned(ctx, mentionedUserIds) ==
    ctx.botUserId # "" /\ IdChars(ctx.botUserId) \in mentionedUserIds

\* hasAnyMention
HasAnyMention(mentionedUserIds, effectiveBody) ==
    mentionedUserIds # {} \/ HasAtToken(effectiveBody)

\* a pattern of buildMentionRegexes matches the text (patterns are literal, lower-case)
MatchesMentionRegex(text, mentionRegexes) ==
    \E pat \in mentionRegexes : Contains(ToLowerCase(text), pat)

\* runtime.channel.mentions.matchesMentionWithExplicit: an explicit or a regex
\* mention was found
MatchesMentionWithExplicit(text, mentionRegexes, explicit) ==
    explicit.isExplicitlyMentioned \/ MatchesMentionRegex(text, mentionRegexes)

\* canDetectMention with the bot identity taken for known
CanDetectMentionAlways(ctx) == TRUE

\* canDetectMention: a bot identity is cached or a mention regex exists
CanDetectMention(ctx) ==
    (ctx.botUserId # "" \/ ctx.botUsername # "") \/ ctx.mentionRegexes # {}

\* the commandAuthorized argument, were it passed as false
CommandNeverAuthorized == FALSE

\* the commandAuthorized and implicitMention arguments of the gate call
CommandAuthorized == TRUE
ImplicitMention == FALSE

\* resolveMentionGatingWithBypass: no skip when mentions cannot be detected;
\* otherwise the message passes if an authorized control command bypasses the
\* requirement, if requireMention is false, or if a mention was found
ResolveMentionGatingWithBypass(p) ==
    LET bypass == p.allowTextCommands /\ p.commandAuthorized /\ p.hasControlCommand
        effective == p.wasMentioned \/ p.implicitMention \/ bypass
    IN  [effectiveWasMentioned |-> effective,
         shouldSkip |-> p.isGroup /\ p.canDetectMention /\ p.requireMention /\ ~effective]

\* the mention gating of prepareTeam9Message for a group message
MentionGate(ctx, message) ==
    LET mentionedUserIds == ExtractMentionedUserIds(message.content)
        effectiveBody    == EffectiveBody(message)
        hasAnyMention    == HasAnyMention(mentionedUserIds, effectiveBody)
    IN  ResolveMentionGatingWithBypass(
            [isGroup           |-> TRUE,
             requireMention    |-> ctx.requireMention,
             canDetectMention  |-> CanDetectMention(ctx),
             wasMentioned      |-> MatchesMentionWithExplicit(
                                       effectiveBody, ctx.mentionRegexes,
                                       [hasAnyMention         |-> hasAnyMention,
                                        isExplicitlyMentioned |-> ExplicitlyMentioned(ctx, mentionedUserIds),
                                        canResolveExplicit    |-> ctx.botUserId # ""
                                                                  \/ ctx.botUsername # ""]),
             implicitMention   |-> ImplicitMention,
             hasAnyMention     |-> hasAnyMention,
             allowTextCommands |-> ctx.allowTextCommands,
             hasControlCommand |-> HasControlCommand(effectiveBody),
             commandAuthorized |-> CommandAuthorized])

(***************************************************************************)
(* Inbound message handler: debouncer                                      *)
(***************************************************************************)
\* quiet window, in ticks (resolveInboundDebounceMs)
DebounceMs == 2
\* last tick of the clock
MaxTime == 3
\* number of inbound messages in one run
MaxMsgs == 3

Channels == {"c1", "c2"}
Senders == {"u1", "u2", BotId, ""}

TextHi      == <<"h", "i">>
TextYo      == <<"y", "o">>
TextCmd     == <<"/", "n">>
TextCmdHtml == <<"/", "<", "b", ">", "n", "<", "/", "b", ">">>
TextBlank   == <<"<", "p", ">", " ", "<", "/", "p", ">">>
TextEntity  == <<"&", "l", "t", ";", "b", "&", "g", "t", ";">>
\* <mention data-user-id="bot">hi
TextMention ==
    <<"<", "m", "e", "n", "t", "i", "o", "n", " ", "d", "a", "t", "a", "-", "u", "s", "e",
      "r", "-", "i", "d", "=", "\"", "b", "o", "t", "\"", ">", "h", "i">>

\* the transport's new_message payloads the runs draw from
Inbound ==
    [channelId : {"c1"}, senderId : {"u1"},
     content : {TextHi, TextYo, TextCmdHtml, TextBlank},
     attachments : {0}]
    \cup [channelId : {"c1"}, senderId : {"u1"}, content : {TextHi}, attachments : {1}]
    \cup [channelId : {"c1"}, senderId : {"u2", BotId, ""}, content : {TextHi}, attachments : {0}]
    \cup [channelId : {"c2"}, senderId : {"u1"}, content : {TextHi, TextCmd, TextMention},
           attachments : {0}]

\* the key of a message without one (buildKey returned null)
NoKey == <<>>
Keys == {<<c, u>> : c \in Channels, u \in Senders \ {BotId, ""}}

NoEntry ==
    [messageId |-> 0, channelId |-> "", senderId |-> "", content |-> <<>>,
     attachments |-> 0, isGroup |-> FALSE, at |-> 0]

\* the kinds of the channels as the server lists them (getUserChannels)
ChannelTypes == [c \in Channels |-> IF c = "c1" THEN "direct" ELSE "public"]

\* the classification of a message under a given cache
IsGroupIn(cache, channelId) == cache[channelId] # "direct"

\* isGroup with every channel taken for a direct one
IsGroupNever(channelId) == FALSE

\* isGroup with a channel of unknown kind taken for a direct one
IsGroupWhenKnown(channelId) == channelTypes[channelId] \in {"public", "private"}

\* handleIncomingMessage: isGroup of an incoming message
IsGroup(channelId) == IsGroupIn(channelTypes, channelId)

\* buildKey without the sender
BuildKeyChannelOnly(message) ==
    IF message.senderId = "" THEN NoKey ELSE <<message.channelId, "u1">>

\* buildKey: team9:<accountId>:<channelId>:<senderId>, null without a senderId
\* (the accountId is that of the handler's own monitor context)
BuildKey(message) ==
    IF message.senderId = "" THEN NoKey ELSE <<message.channelId, message.senderId>>

\* shouldDebounce without the attachment test
ShouldDebounceTextOnly(message) ==
    LET plain == StripHtml(message.content)
    IN  IF Trim(plain) = <<>> THEN FALSE
        ELSE ~HasControlCommand(plain)

\* shouldDebounce looking for the command in the raw content
ShouldDebounceRaw(message) ==
    LET plain == StripHtml(message.content)
    IN  IF message.attachments > 0 THEN FALSE
        ELSE IF Trim(plain) = <<>> THEN FALSE
        ELSE ~HasControlCommand(message.content)

\* shouldDebounce with the command test inverted
ShouldDebounceInverted(message) ==
    LET plain == StripHtml(message.content)
    IN  IF message.attachments > 0 THEN FALSE
        ELSE IF Trim(plain) = <<>> THEN FALSE
        ELSE HasControlCommand(plain)

\* shouldDebounce
ShouldDebounce(message) ==
    LET plain == StripHtml(message.content)
    IN  IF message.attachments > 0 THEN FALSE
        ELSE IF Trim(plain) = <<>> THEN FALSE
        ELSE ~HasControlCommand(plain)

\* the handler closure without the self-message filter
IsSelfMessageNever(message) == FALSE

\* the handler closure's self-message filter
IsSelfMessage(message) == botUserId # "" /\ message.senderId = botUserId

\* entries of key k still inside the quiet window at time t
InWindow(entries, t) == SelectSeq(entries, LAMBDA e : e.at + DebounceMs > t)

\* key under which the observation `recent` files an entry
ObservedKey(message) == <<message.channelId, message.senderId>>

ObserveRecent(entry) ==
    IF ObservedKey(entry) \in Keys
    THEN [recent EXCEPT ![ObservedKey(entry)] = Append(@, entry)]
    ELSE recent

(***************************************************************************)
(* Flush stage: merge, preflight, dispatch                                 *)
(***************************************************************************)
\* the monitor context of the handler: the cached bot identity and the
\* configuration the preflight resolves (no groups configured: requireMention
\* defaults to true; no mention patterns; text commands handled)
MonitorCtx ==
    [botUserId |-> botUserId, botUsername |-> botUsername, requireMention |-> TRUE,
     mentionRegexes |-> {}, allowTextCommands |-> TRUE]

RECURSIVE JoinLinesTight(_)
\* join without a separator
JoinLinesTight(contents) ==
    IF contents = <<>> THEN <<>>
    ELSE Head(contents) \o JoinLinesTight(Tail(contents))

RECURSIVE JoinLines(_)
\* Array.prototype.join("\n")
JoinLines(contents) ==
    IF contents = <<>> THEN <<>>
    ELSE IF Len(contents) = 1 THEN Head(contents)
    ELSE Head(contents) \o <<"\n">> \o JoinLines(Tail(contents))

\* onFlush: entries.map(content).filter(Boolean).join("\n")
CombinedContent(entries) ==
    JoinLines(SelectSeq([i \in 1..Len(entries) |-> entries[i].content],
                        LAMBDA c : c # <<>>))

\* the merged message built on the first entry of the batch
SyntheticMessageOnFirst(entries) ==
    IF Len(entries) = 1 THEN entries[1]
    ELSE [entries[1] EXCEPT !.content = CombinedContent(entries)]

\* onFlush: the message handed to the preflight
SyntheticMessage(entries) ==
    IF Len(entries) = 1 THEN entries[Len(entries)]
    ELSE [entries[Len(entries)] EXCEPT !.content = CombinedContent(entries)]

NoPrepared == <<>>

\* prepareTeam9Message: null for an empty message or a group message the gate
\* skips, else the finalized context
PrepareTeam9Message(ctx, message) ==
    LET plainContent  == StripHtml(message.content)
        effectiveBody == IF plainContent # <<>> THEN plainContent
                         ELSE BuildAttachmentPlaceholder(message.attachments)
        mentionGate   == MentionGate(ctx, message)
    IN  IF plainContent = <<>> /\ message.attachments = 0 THEN NoPrepared
        ELSE IF effectiveBody = <<>> THEN NoPrepared
        ELSE IF message.isGroup /\ mentionGate.shouldSkip THEN NoPrepared
        ELSE [Body            |-> effectiveBody,
              To              |-> message.channelId,
              ChatType        |-> IF message.isGroup THEN "group" ELSE "direct",
              SenderId        |-> message.senderId,
              MessageSid      |-> message.messageId,
              WasMentioned    |-> message.isGroup /\ mentionGate.effectiveWasMentioned,
              MessageSids     |-> <<>>,
              MessageSidFirst |-> 0,
              MessageSidLast  |-> 0]

\* onFlush recording only the last message's id
BatchIdsLastOnly(entries) == <<entries[Len(entries)].messageId>>

\* onFlush: entries.map(messageId).filter(Boolean)
BatchIds(entries) ==
    SelectSeq([i \in 1..Len(entries) |-> entries[i].messageId], LAMBDA id : id # 0)

\* onFlush: the ctxPayloads one flushed batch hands to dispatch (none or one)
OnFlush(ctx, entries) ==
    IF entries = <<>> THEN <<>>
    ELSE LET prepared == PrepareTeam9Message(ctx, SyntheticMessage(entries))
             ids      == BatchIds(entries)
         IN  IF prepared = NoPrepared THEN <<>>
             ELSE IF Len(entries) > 1 /\ ids # <<>>
             THEN <<[prepared EXCEPT !.MessageSids = ids,
                                     !.MessageSidFirst = ids[1],
                                     !.MessageSidLast = ids[Len(ids)]]>>
             ELSE <<prepared>>

RECURSIVE FlushBatches(_, _)
\* the batches of one step, flushed one after the other
FlushBatches(ctx, batches) ==
    IF batches = <<>> THEN <<>>
    ELSE OnFlush(ctx, Head(batches)) \o FlushBatches(ctx, Tail(batches))

\* what the agent runtime's dispatchReplyFromConfig does with a turn: whether
\* it delivers a reply, and whether it throws (after the reply, if any)
AgentTurns == [replies : BOOLEAN, throws : BOOLEAN]
AnsweringAgent == [replies |-> TRUE, throws |-> FALSE]

\* dispatchPreparedTeam9Message with markDispatchIdle() after the dispatch call
\* instead of in a finally block
DispatchPreparedNoFinally(payload, agent) ==
    LET reply == IF agent.replies
                 THEN <<[kind |-> "startTyping", channelId |-> payload.To],
                        [kind |-> "sendMessage", channelId |-> payload.To]>>
                 ELSE <<>>
    IN  IF agent.throws
        THEN [effects |-> reply, idle |-> 0, thrown |-> "Error"]
        ELSE [effects |-> reply \o <<[kind |-> "stopTyping", channelId |-> payload.To]>>,
              idle |-> 1, thrown |-> "none"]

\* dispatchPreparedTeam9Message: the dispatch call inside try, its exception
\* caught and logged, markDispatchIdle() in finally. A reply starts typing
\* (onReplyStart) and is sent to the originating channel (deliver); idle stops
\* typing (onIdle)
DispatchPreparedTeam9Message(payload, agent) ==
    LET reply  == IF agent.replies
                  THEN <<[kind |-> "startTyping", channelId |-> payload.To],
                         [kind |-> "sendMessage", channelId |-> payload.To]>>
                  ELSE <<>>
        \* try { await dispatchReplyFromConfig(...) }
        tried  == [effects |-> reply, idle |-> 0,
                   thrown |-> IF agent.throws THEN "Error" ELSE "none"]
        \* catch (err) { console.error(...) }
        caught == IF tried.thrown # "none" THEN [tried EXCEPT !.thrown = "none"] ELSE tried
        \* finally { markDispatchIdle() }
    IN  [caught EXCEPT !.idle = @ + 1,
                       !.effects = @ \o <<[kind |-> "stopTyping",
                                           channelId |-> payload.To]>>]

\* dispatchPreparedTeam9Message with an agent that answers the turn: typing
\* starts, the reply is sent to the originating channel, typing stops at idle
DispatchEffects(payload) ==
    DispatchPreparedTeam9Message(payload, AnsweringAgent).effects

RECURSIVE EffectsOf(_)
EffectsOf(payloads) ==
    IF payloads = <<>> THEN <<>>
    ELSE DispatchEffects(Head(payloads)) \o EffectsOf(Tail(payloads))

\* the step hands these batches to onFlush
Deliver(batches) ==
    \E payloads \in {FlushBatches(MonitorCtx, batches)} :
        /\ dispatched' = payloads
        /\ effects' = EffectsOf(payloads)

\* the step flushes nothing
NoDelivery == dispatched' = <<>> /\ effects' = <<>>

\* enqueue of a bypassing entry that overtakes the pending batch of its key
EnqueueBypassAhead(entry, key) ==
    /\ lastFlush' = IF key # NoKey /\ buffers[key] # <<>>
                    THEN <<<<entry>>, buffers[key]>> ELSE <<<<entry>>>>
    /\ Deliver(lastFlush')
    /\ buffers' = IF key # NoKey THEN [buffers EXCEPT ![key] = <<>>] ELSE buffers
    /\ due' = IF key # NoKey THEN [due EXCEPT ![key] = 0] ELSE due

\* debouncer.enqueue of an entry that is not debounced (or has no key): the
\* pending batch of its key is flushed first, then the entry alone
EnqueueBypass(entry, key) ==
    /\ lastFlush' = IF key # NoKey /\ buffers[key] # <<>>
                    THEN <<buffers[key], <<entry>>>> ELSE <<<<entry>>>>
    /\ Deliver(lastFlush')
    /\ buffers' = IF key # NoKey THEN [buffers EXCEPT ![key] = <<>>] ELSE buffers
    /\ due' = IF key # NoKey THEN [due EXCEPT ![key] = 0] ELSE due

\* debouncer.enqueue of a debounced entry: append and restart the timer
EnqueueDebounced(entry, key) ==
    /\ buffers' = [buffers EXCEPT ![key] = Append(@, entry)]
    /\ due' = [due EXCEPT ![key] = now + DebounceMs]
    /\ lastFlush' = <<>>
    /\ NoDelivery

\* the transport's new_message event reaching the handler closure
NewMessage(m) ==
    /\ received < MaxMsgs
    /\ clients[CtxClient].socket = "connected"
    /\ received' = received + 1
    /\ LET entry == [messageId |-> received + 1, channelId |-> m.channelId,
                     senderId |-> m.senderId, content |-> m.content,
                     attachments |-> m.attachments, isGroup |-> IsGroup(m.channelId),
                     at |-> now]
           key   == BuildKey(entry)
       IN  IF IsSelfMessage(entry)
           THEN /\ lastIn' = NoEntry
                /\ lastFlush' = <<>>
                /\ NoDelivery
                /\ UNCHANGED <<buffers, due, recent>>
           ELSE /\ lastIn' = entry
                /\ recent' = ObserveRecent(entry)
                /\ IF DebounceMs > 0 /\ ShouldDebounce(entry) /\ key # NoKey
                   THEN EnqueueDebounced(entry, key)
                   ELSE EnqueueBypass(entry, key)
    /\ UNCHANGED <<botUserId, now>>
    /\ UNCHANGED <<supVars, routeVars, gateVars, callVars, cacheVars>>

\* the quiet-window timer of key k fires: flush the batch and clear the key
TimerFire(k) ==
    /\ due[k] # 0 /\ due[k] <= now
    /\ lastFlush' = <<buffers[k]>>
    /\ Deliver(<<buffers[k]>>)
    /\ buffers' = [buffers EXCEPT ![k] = <<>>]
    /\ due' = [due EXCEPT ![k] = 0]
    /\ lastIn' = NoEntry
    /\ UNCHANGED <<botUserId, now, received, recent>>
    /\ UNCHANGED <<supVars, routeVars, gateVars, callVars, cacheVars>>

\* time passes; a timer that is due fires before the clock moves on
Advance ==
    /\ now < MaxTime
    /\ \A k \in Keys : due[k] = 0 \/ due[k] > now
    /\ now' = now + 1
    /\ recent' = [k \in Keys |-> InWindow(recent[k], now + 1)]
    /\ lastIn' = NoEntry
    /\ lastFlush' = <<>>
    /\ NoDelivery
    /\ UNCHANGED <<botUserId, buffers, due, received>>
    /\ UNCHANGED <<supVars, routeVars, gateVars, callVars, cacheVars>>

(***************************************************************************)
(* Specification of the connection supervisor                              *)
(***************************************************************************)
SupInit ==
    /\ activeConnections = [a \in Accounts |-> NoClient]
    /\ watchdogInterval = FALSE
    /\ watchdogFailures = [a \in Accounts |-> 0]
    /\ clients = [c \in ClientIds |-> FreshClient]
    /\ nextClient = 1
    /\ lastOp = Op("init", "*", FALSE, "none")
    /\ lastTick = NoScan
    /\ unhealthyRun = [a \in Accounts |-> 0]
    /\ rebuildFailed = [a \in Accounts |-> FALSE]

SupNext ==
    \/ \E a \in Accounts : StartAccount(a)
    \/ \E a \in Accounts : Outbound(a)
    \/ \E a \in Accounts : HandleAction(a)
    \/ \E a \in Accounts : StopAccount(a)
    \/ WatchdogTick
    \/ \E c \in ClientIds : Authenticated(c)
    \/ \E c \in ClientIds : AuthError(c)
    \/ \E c \in ClientIds : ConnectError(c)
    \/ \E c \in ClientIds : SocketDisconnect(c)

\* the inbound pipeline before any message
DebIdle ==
    /\ buffers = [k \in Keys |-> <<>>]
    /\ due = [k \in Keys |-> 0]
    /\ now = 0
    /\ received = 0
    /\ recent = [k \in Keys |-> <<>>]
    /\ lastIn = NoEntry
    /\ lastFlush = <<>>

\* no routing call, no gate call and no flush yet
NoRoute == [args |-> <<>>, route |-> <<>>]
NoGate == <<>>
NoCall == <<>>

StageIdle ==
    /\ dispatched = <<>>
    /\ effects = <<>>
    /\ routePrev = NoRoute
    /\ routeCur = NoRoute
    /\ gateIn = NoGate
    /\ gateOut = NoGate
    /\ callIn = NoCall
    /\ callOut = NoCall

\* the transport client before "authenticated": nothing cached, joined or requested
CacheIdle ==
    /\ channelTypes = [c \in Channels |-> "none"]
    /\ joinedChannels = {}
    /\ botUsername = ""
    /\ metaFetch = "idle"
    /\ channelFetch = {}
    /\ metaFailed = {}

\* the transport client after onAuthenticated has listed and joined the
\* channels of the bot, whose profile carries no username
CacheListed ==
    /\ channelTypes = ChannelTypes
    /\ joinedChannels = Channels
    /\ botUsername = ""
    /\ metaFetch = "done"
    /\ channelFetch = {}
    /\ metaFailed = {}

vars == <<supVars, debVars, stageVars, cacheVars>>

Init == SupInit /\ botUserId = "" /\ DebIdle /\ StageIdle /\ CacheIdle

Next == SupNext

Spec == Init /\ [][Next]_vars

(***************************************************************************)
(* Specification of the inbound debounce stage: the account is started and *)
(* authenticated, its handler receives messages                            *)
(***************************************************************************)
\* the supervisor after startAccount(CtxAccount) and the "authenticated" event
ConnectedClient ==
    [accountId |-> CtxAccount, socket |-> "connected", isConnected |-> TRUE,
     heartbeatInterval |-> TRUE, authListener |-> FALSE, promise |-> "resolved",
     token |-> TRUE, byWatchdog |-> FALSE]

DebounceInit ==
    /\ activeConnections = [a \in Accounts |-> IF a = CtxAccount THEN CtxClient ELSE NoClient]
    /\ watchdogInterval = TRUE
    /\ watchdogFailures = [a \in Accounts |-> 0]
    /\ clients = [c \in ClientIds |-> IF c = CtxClient THEN ConnectedClient ELSE FreshClient]
    /\ nextClient = CtxClient + 1
    /\ lastOp = Op("event", "*", FALSE, "done")
    /\ lastTick = NoScan
    /\ unhealthyRun = [a \in Accounts |-> 0]
    /\ rebuildFailed = [a \in Accounts |-> FALSE]
    /\ botUserId = BotId
    /\ DebIdle
    /\ StageIdle
    /\ CacheListed

DebounceNext ==
    \/ \E m \in Inbound : NewMessage(m)
    \/ \E k \in Keys : TimerFire(k)
    \/ Advance

DebounceSpec == DebounceInit /\ [][DebounceNext]_vars


(***************************************************************************)
(* Specification of the supervisor and one account's inbound pipeline side *)
(* by side: the default account is connected and receives a plain text,    *)
(* which waits for its quiet window to end, while the host, the watchdog   *)
(* and the sockets of both accounts act                                    *)
(***************************************************************************)
IsolationInbound ==
    {m \in Inbound : /\ m.channelId = "c1" /\ m.senderId = "u1"
                     /\ m.content = TextHi /\ m.attachments = 0}

\* the first message of the run arrives
IsolationMessage(m) ==
    /\ received = 0
    /\ NewMessage(m)

\* time passes while the message waits for its quiet window to end
IsolationAdvance ==
    /\ \E k \in Keys : buffers[k] # <<>>
    /\ Advance

IsolationNext ==
    \/ SupNext
    \/ \E m \in IsolationInbound : IsolationMessage(m)
    \/ \E k \in Keys : TimerFire(k)
    \/ IsolationAdvance

IsolationSpec == DebounceInit /\ [][IsolationNext]_vars

(***************************************************************************)
(* The transport client's channel events and the metadata requests of      *)
(* getConnection's callbacks (onAuthenticated, onChannelJoined)            *)
(***************************************************************************)
\* the kinds the server reports for a channel: "c1" is a direct channel, "c2"
\* a group channel, public or private
ServerKinds(c) == IF ChannelTypes[c] = "direct" THEN {"direct"} ELSE {"public", "private"}

\* the values of the optional `type` of a channel_created event: a kind of
\* the channel, or "none" when the event carries no known kind
CreatedKinds(c) == ServerKinds(c) \cup {"none"}

\* Team9WebSocketClient.setChannelType
SetChannelType(cache, c, type) == [cache EXCEPT ![c] = type]

\* Team9WebSocketClient.joinChannel: emits join_channel unless there is no
\* socket or the client is not connected
JoinChannel(joined, c) ==
    IF clients[CtxClient].socket = "null" \/ ~clients[CtxClient].isConnected THEN joined
    ELSE joined \cup {c}

\* onAuthenticated: api.getMe() settles; a failure is caught and logged
GetMeAnswered(ok, username) ==
    /\ metaFetch = "getMe"
    /\ botUsername' = IF ok THEN username ELSE botUsername
    /\ metaFailed' = IF ok THEN metaFailed ELSE metaFailed \cup {"getMe"}
    /\ metaFetch' = "getUserChannels"
    /\ UNCHANGED <<channelTypes, joinedChannels, channelFetch>>
    /\ UNCHANGED <<supVars, debVars, stageVars>>

\* onAuthenticated: api.getUserChannels() settles; each listed channel has its
\* kind cached and is joined; a failure is caught and logged
UserChannelsAnswered(ok, listing) ==
    /\ metaFetch = "getUserChannels"
    /\ channelTypes' = IF ok
                       THEN [c \in Channels |->
                                IF c \in listing THEN ChannelTypes[c] ELSE channelTypes[c]]
                       ELSE channelTypes
    /\ joinedChannels' = IF ok /\ JoinChannel({}, "c1") # {}
                         THEN joinedChannels \cup listing ELSE joinedChannels
    /\ metaFailed' = IF ok THEN metaFailed ELSE metaFailed \cup {"getUserChannels"}
    /\ metaFetch' = "done"
    /\ UNCHANGED <<botUsername, channelFetch>>
    /\ UNCHANGED <<supVars, debVars, stageVars>>

\* the socket's channel_created event: the kind is cached if the event
\* carries one, and the channel is joined
ChannelCreated(c, type) ==
    /\ clients[CtxClient].socket = "connected"
    /\ channelTypes' = IF type \in {"direct", "public", "private"}
                       THEN SetChannelType(channelTypes, c, type) ELSE channelTypes
    /\ joinedChannels' = JoinChannel(joinedChannels, c)
    /\ UNCHANGED <<botUsername, metaFetch, channelFetch, metaFailed>>
    /\ UNCHANGED <<supVars, debVars, stageVars>>

\* the socket's channel_joined event: the channel is joined, then
\* onChannelJoined requests its metadata
ChannelJoined(c) ==
    /\ clients[CtxClient].socket = "connected"
    /\ joinedChannels' = JoinChannel(joinedChannels, c)
    /\ channelFetch' = channelFetch \cup {c}
    /\ UNCHANGED <<channelTypes, botUsername, metaFetch, metaFailed>>
    /\ UNCHANGED <<supVars, debVars, stageVars>>

\* onChannelJoined: api.getChannel(channelId) settles; a failure is caught and logged
ChannelAnswered(c, ok, type) ==
    /\ c \in channelFetch
    /\ channelTypes' = IF ok THEN SetChannelType(channelTypes, c, type) ELSE channelTypes
    /\ channelFetch' = channelFetch \ {c}
    /\ metaFailed' = IF ok THEN metaFailed ELSE metaFailed \cup {"getChannel"}
    /\ UNCHANGED <<joinedChannels, botUsername, metaFetch>>
    /\ UNCHANGED <<supVars, debVars, stageVars>>

(***************************************************************************)
(* Specification of one account from its start: the host starts the        *)
(* default account, the server authenticates the client, answers or fails  *)
(* its metadata requests and announces channels, and a message that is not *)
(* debounced arrives in a channel the client has joined                    *)
(***************************************************************************)
ClientInbound == {m \in Inbound : m.senderId = "u1" /\ ~ShouldDebounce(m)}

\* the first new_message event of the run, in a channel the socket has joined
ClientMessage(m) ==
    /\ received = 0
    /\ m.channelId \in joinedChannels
    /\ NewMessage(m)

\* the host starts the account of the monitor context; no client was built before
ClientStart ==
    /\ nextClient = CtxClient
    /\ StartAccount(CtxAccount)

ClientNext ==
    \/ ClientStart
    \/ \E c \in ClientIds : Authenticated(c)
    \/ \E ok \in BOOLEAN, username \in {"", "botname"} : GetMeAnswered(ok, username)
    \/ \E ok \in BOOLEAN, listing \in SUBSET Channels : UserChannelsAnswered(ok, listing)
    \/ \E c \in Channels : \E type \in CreatedKinds(c) : ChannelCreated(c, type)
    \/ \E c \in Channels : ChannelJoined(c)
    \/ \E c \in Channels : \E ok \in BOOLEAN, type \in ServerKinds(c) : ChannelAnswered(c, ok, type)
    \/ \E m \in ClientInbound : ClientMessage(m)

ClientSpec == Init /\ [][ClientNext]_vars

(***************************************************************************)
(* Specification of the router: two turns are routed one after the other,  *)
(* the arguments of each drawn from identifiers of every shape             *)
(***************************************************************************)
\* longest sender identifier of the runs
MaxIdLen == 1
IdAlphabet == {"a", "A", ".", "-"}
RouteSenders == UNION {[1..n -> IdAlphabet] : n \in 1..MaxIdLen}
RouteChannels == {<<"c">>, <<"C">>}
RouteAccounts == {DefaultAccountId, <<"W">>, <<"w">>}
RouteArgs ==
    [accountId : RouteAccounts, channelId : RouteChannels,
     senderId : RouteSenders, isGroup : BOOLEAN]

\* one call with its result
RouteCall(a) ==
    [args |-> a, route |-> ResolveRoute(a.accountId, a.channelId, a.senderId, a.isGroup)]

\* handleIncomingMessage routes the turn that follows the first one
RouteTurn(a) ==
    /\ routePrev = NoRoute
    /\ routePrev' = routeCur
    /\ routeCur' = RouteCall(a)
    /\ UNCHANGED <<supVars, debVars, flushVars, gateVars, callVars, cacheVars>>

RouteInit ==
    /\ SupInit /\ botUserId = "" /\ DebIdle /\ CacheIdle
    /\ dispatched = <<>> /\ effects = <<>>
    /\ gateIn = NoGate /\ gateOut = NoGate
    /\ callIn = NoCall /\ callOut = NoCall
    /\ routePrev = NoRoute
    /\ \E a \in RouteArgs : routeCur = RouteCall(a)

RouteNext == \E a \in RouteArgs : RouteTurn(a)

RouteSpec == RouteInit /\ [][RouteNext]_vars


(***************************************************************************)
(* Specification of the mention gate: a group message and a monitor        *)
(* context are drawn, and the preflight is applied to them                  *)
(***************************************************************************)
\* <mention data-user-id="u2">hi
TextMentionOther ==
    <<"<", "m", "e", "n", "t", "i", "o", "n", " ", "d", "a", "t", "a", "-", "u", "s", "e",
      "r", "-", "i", "d", "=", "\"", "u", "2", "\"", ">", "h", "i">>
TextAtBot == <<"@", "b", " ", "h", "i">>
TextAtCmd == <<"@", "x", " ", "/", "n">>
GateContents == {TextHi, TextCmd, TextMention, TextMentionOther, TextAtBot, TextAtCmd}

\* the mention pattern of the agent, when one is configured
BotMentionPattern == <<"@", "b">>

GateContexts ==
    [botUserId : {"", BotId}, botUsername : {"", "botname"}, requireMention : BOOLEAN,
     mentionRegexes : {{}, {BotMentionPattern}}, allowTextCommands : BOOLEAN]

GateInputs ==
    [ctx : GateContexts,
     message : [messageId : {1}, channelId : {"c2"}, senderId : {"u1"},
                content : GateContents, attachments : {0}, isGroup : {TRUE}, at : {0}]]

\* the gate's decision on a message, and whether the preflight lets it through
GateResult(in) ==
    LET mentionGate == MentionGate(in.ctx, in.message)
    IN  [shouldSkip            |-> mentionGate.shouldSkip,
         effectiveWasMentioned |-> mentionGate.effectiveWasMentioned,
         prepared              |-> PrepareTeam9Message(in.ctx, in.message) # NoPrepared]

\* prepareTeam9Message is called with the group message and context at hand
GateMessage ==
    /\ gateOut = NoGate
    /\ gateOut' = GateResult(gateIn)
    /\ UNCHANGED <<supVars, debVars, flushVars, routeVars, gateIn, callVars, cacheVars>>

GateInit ==
    /\ SupInit /\ botUserId = "" /\ DebIdle /\ CacheIdle
    /\ dispatched = <<>> /\ effects = <<>>
    /\ routePrev = NoRoute /\ routeCur = NoRoute
    /\ gateIn \in GateInputs
    /\ gateOut = NoGate
    /\ callIn = NoCall /\ callOut = NoCall

GateNext == GateMessage

GateSpec == GateInit /\ [][GateNext]_vars


(***************************************************************************)
(* Resolution of requireMention for a group channel (group-mentions.ts)    *)
(***************************************************************************)
\* a groups[...] entry: no entry, an entry without a boolean requireMention,
\* or an entry whose requireMention is true or false
GroupSettings == {"absent", "unset", "true", "false"}
IsBooleanSetting(setting) == setting \in {"true", "false"}

\* a groups map: undefined, or defined with its entry for the channel and for "*"
NoGroups == [defined |-> FALSE, chan |-> "absent", star |-> "absent"]
GroupsMaps == {NoGroups} \cup [defined : {TRUE}, chan : GroupSettings, star : GroupSettings]

\* cfg.channels.team9: absent, or present with its root groups and the groups
\* of the account "a"
Team9Configs ==
    {[team9 |-> FALSE, groups |-> NoGroups, accountGroups |-> NoGroups]}
        \cup [team9 : {TRUE}, groups : GroupsMaps, accountGroups : GroupsMaps]

RequireMentionCalls ==
    [op : {"resolveRequireMention"}, cfg : Team9Configs, accountId : {"", "a"},
     groupId : {"", "c2"}]

ResolveTeam9GroupRequireMention(params) ==
    IF ~params.cfg.team9 THEN TRUE
    ELSE LET accountGroups == IF params.accountId # "" THEN params.cfg.accountGroups
                              ELSE NoGroups
             groups == IF accountGroups.defined THEN accountGroups ELSE params.cfg.groups
         IN  IF ~groups.defined THEN TRUE
             ELSE IF params.groupId # "" /\ groups.chan # "absent"
                     /\ IsBooleanSetting(groups.chan)
                  THEN groups.chan = "true"
                  ELSE IF groups.star # "absent" /\ IsBooleanSetting(groups.star)
                       THEN groups.star = "true"
                       ELSE TRUE

\* the host asks whether the group channel requires a mention
ResolveRequireMentionCall ==
    /\ callOut = NoCall
    /\ callIn.op = "resolveRequireMention"
    /\ callOut' = [value |-> ResolveTeam9GroupRequireMention(callIn)]
    /\ UNCHANGED <<supVars, debVars, flushVars, routeVars, gateVars, callIn, cacheVars>>


(***************************************************************************)
(* REST client (api-client.ts) and outbound delivery (part_002)            *)
(***************************************************************************)
\* the HTTP statuses a REST call is answered with
HttpStatuses == {200, 401, 403, 500}

\* Team9ApiClient.fetch: the JSON body on success, Team9AuthError on 401 and
\* 403, a plain Error on every other failure
ApiFetch(status) ==
    IF status = 200 THEN [ok |-> TRUE, kind |-> "none"]
    ELSE IF status = 401 \/ status = 403 THEN [ok |-> FALSE, kind |-> "Team9AuthError"]
    ELSE [ok |-> FALSE, kind |-> "Error"]

\* the host calls a REST endpoint through the client
FetchCalls == [op : {"fetch"}, status : HttpStatuses]

FetchCall ==
    /\ callOut = NoCall
    /\ callIn.op = "fetch"
    /\ callOut' = ApiFetch(callIn.status)
    /\ UNCHANGED <<supVars, debVars, flushVars, routeVars, gateVars, callIn, cacheVars>>

\* the socket event that settles connect(): each of the three once-listeners
WsEvents == {"authenticated", "auth_error", "connect_error"}

\* Team9WebSocketClient.connect: resolve() on "authenticated", reject(new
\* Error("Authentication failed: ...")) on "auth_error", reject(error) with
\* the transport's Error on "connect_error"
WsConnect(event) ==
    IF event = "authenticated" THEN [resolved |-> TRUE, kind |-> "none"]
    ELSE [resolved |-> FALSE, kind |-> "Error"]

\* getConnection for an account without a registry entry, as gateway.startAccount
\* calls it: what is thrown, whether an entry is installed, how many times
\* connect() is called
GetConnectionFresh(call) ==
    IF ~call.token THEN [thrown |-> "Error", installed |-> FALSE, connects |-> 0]
    ELSE LET settled == WsConnect(call.event)
         IN  [thrown |-> settled.kind, installed |-> settled.resolved, connects |-> 1]

StartAccountCalls == [op : {"startAccount"}, token : BOOLEAN, event : WsEvents]

\* the host starts a configured and enabled account
StartAccountCall ==
    /\ callOut = NoCall
    /\ callIn.op = "startAccount"
    /\ callOut' = GetConnectionFresh(callIn)
    /\ UNCHANGED <<supVars, debVars, flushVars, routeVars, gateVars, callIn, cacheVars>>

\* what getConnection does for an outbound call: it returns a connection, or
\* throws what connect() rejected with
ConnectOutcomes == {"connected", "Error"}

UserPrefix == <<"u", "s", "e", "r", ":">>
StartsWith(str, prefix) ==
    Len(str) >= Len(prefix) /\ SubSeq(str, 1, Len(prefix)) = prefix
\* to.replace("user:", "") of a target that starts with "user:"
StripUserPrefix(to) == SubSeq(to, Len(UserPrefix) + 1, Len(to))

\* the direct channel the server resolves or creates for a user
DmChannelId(userId) == <<"d", "m", "-">> \o userId
\* the id the server gives the message it stored
NewMessageId == "m1"

Targets == {<<"c", "1">>, UserPrefix \o <<"4", "2">>, UserPrefix, <<"x">> \o UserPrefix}

SendTextCalls ==
    [op : {"sendText"}, to : Targets, configured : BOOLEAN, connect : ConnectOutcomes,
     dmStatus : HttpStatuses, sendStatus : HttpStatuses]

Failed(error) == [messageId |-> "", status |-> "failed", error |-> error]

\* sendTeam9Message delivering to the target as given, without resolving it
SendTeam9MessageRaw(call) ==
    IF ~call.configured THEN [trace |-> <<>>, result |-> Failed("Account not configured")]
    ELSE IF call.connect # "connected"
    THEN [trace |-> <<>>, result |-> Failed(call.connect)]
    ELSE LET send == [call |-> "sendMessage", arg |-> call.to]
         IN  IF ~ApiFetch(call.sendStatus).ok
             THEN [trace |-> <<send>>, result |-> Failed(ApiFetch(call.sendStatus).kind)]
             ELSE [trace |-> <<send>>,
                   result |-> [messageId |-> NewMessageId, status |-> "sent",
                               error |-> ""]]

\* sendTeam9Message, with the wrapping of its result by outbound.sendText
SendTeam9Message(call) ==
    IF ~call.configured THEN [trace |-> <<>>, result |-> Failed("Account not configured")]
    ELSE IF call.connect # "connected"
    THEN [trace |-> <<>>, result |-> Failed(call.connect)]
    ELSE LET isUser == StartsWith(call.to, UserPrefix)
             userId == StripUserPrefix(call.to)
             dm     == [call |-> "getOrCreateDmChannel", arg |-> userId]
             before == IF isUser THEN <<dm>> ELSE <<>>
             channelId == IF isUser THEN DmChannelId(userId) ELSE call.to
             send   == [call |-> "sendMessage", arg |-> channelId]
         IN  IF isUser /\ ~ApiFetch(call.dmStatus).ok
             THEN [trace |-> before, result |-> Failed(ApiFetch(call.dmStatus).kind)]
             ELSE IF ~ApiFetch(call.sendStatus).ok
             THEN [trace |-> before \o <<send>>,
                   result |-> Failed(ApiFetch(call.sendStatus).kind)]
             ELSE [trace |-> before \o <<send>>,
                   result |-> [messageId |-> NewMessageId, status |-> "sent",
                               error |-> ""]]

\* the host calls outbound.sendText
SendTextCall ==
    /\ callOut = NoCall
    /\ callIn.op = "sendText"
    /\ callOut' = SendTeam9Message(callIn)
    /\ UNCHANGED <<supVars, debVars, flushVars, routeVars, gateVars, callIn, cacheVars>>


(***************************************************************************)
(* Message actions: edit, delete, react                                    *)
(***************************************************************************)
Returned(success, error) ==
    [thrown |-> "none", result |-> [success |-> success, error |-> error]]
Thrown(kind) == [thrown |-> kind, result |-> [success |-> FALSE, error |-> ""]]

SupportedActions == {"edit", "delete", "react"}

\* actions.handleAction: getConnection, then the REST call of the action; no
\* exception is caught
HandleActionResult(call) ==
    IF call.connect # "connected" THEN Thrown(call.connect)
    ELSE IF call.action \in SupportedActions
    THEN IF ApiFetch(call.status).ok THEN Returned(TRUE, "")
         ELSE Thrown(ApiFetch(call.status).kind)
    ELSE Thrown("Error")

\* actions.editMessage, deleteMessage, addReaction and removeReaction of the
\* earlier revision: the same calls inside try / catch
MessageAction(call) ==
    IF call.connect # "connected" THEN Returned(FALSE, call.connect)
    ELSE IF ApiFetch(call.status).ok THEN Returned(TRUE, "")
    ELSE Returned(FALSE, ApiFetch(call.status).kind)

ActionCalls ==
    [op : {"handleAction"}, action : SupportedActions \cup {"pin"},
     connect : ConnectOutcomes, status : HttpStatuses]
        \cup [op : {"messageAction"},
              action : {"editMessage", "deleteMessage", "addReaction", "removeReaction"},
              connect : ConnectOutcomes, status : HttpStatuses]

\* the host calls actions.handleAction
HandleActionCall ==
    /\ callOut = NoCall
    /\ callIn.op = "handleAction"
    /\ callOut' = HandleActionResult(callIn)
    /\ UNCHANGED <<supVars, debVars, flushVars, routeVars, gateVars, callIn, cacheVars>>

\* the host calls one of the per-action methods of the earlier revision
MessageActionCall ==
    /\ callOut = NoCall
    /\ callIn.op = "messageAction"
    /\ callOut' = MessageAction(callIn)
    /\ UNCHANGED <<supVars, debVars, flushVars, routeVars, gateVars, callIn, cacheVars>>


(***************************************************************************)
(* Dispatch of a prepared message                                          *)
(***************************************************************************)
DispatchCalls == [op : {"dispatch"}, To : {"c1", "c2"}, agent : AgentTurns]

\* onFlush hands a prepared message to dispatchPreparedTeam9Message
DispatchCall ==
    /\ callOut = NoCall
    /\ callIn.op = "dispatch"
    /\ callOut' = DispatchPreparedTeam9Message(callIn, callIn.agent)
    /\ UNCHANGED <<supVars, debVars, flushVars, routeVars, gateVars, callIn, cacheVars>>


(***************************************************************************)
(* Token resolution (config.ts)                                            *)
(***************************************************************************)
\* a token setting: undefined, or a string
Undefined == [defined |-> FALSE, raw |-> <<>>]
Defined(raw) == [defined |-> TRUE, raw |-> raw]

\* normalizeTeam9Token: the trimmed token, undefined if there is none or it is blank
NormalizeTeam9Token(setting) ==
    IF ~setting.defined \/ setting.raw = <<>> THEN Undefined
    ELSE IF Trim(setting.raw) = <<>> THEN Undefined
    ELSE Defined(Trim(setting.raw))

NoToken == [token |-> <<>>, source |-> "none"]

\* resolveTeam9Token: account config, then root config and the environment,
\* both for the default account only
ResolveTeam9Token(call) ==
    LET isDefault    == call.accountId = "default"
        accountToken == NormalizeTeam9Token(call.accountToken)
        configToken  == NormalizeTeam9Token(call.rootToken)
        envToken     == NormalizeTeam9Token(call.env)
    IN  IF accountToken.defined THEN [token |-> accountToken.raw, source |-> "config"]
        ELSE IF isDefault /\ configToken.defined
        THEN [token |-> configToken.raw, source |-> "config"]
        ELSE IF isDefault /\ envToken.defined
        THEN [token |-> envToken.raw, source |-> "env"]
        ELSE NoToken

\* the token of resolveTeam9Account in the earlier revision:
\* process.env.TEAM9_TOKEN ?? accountConfig?.credentials?.token ??
\* (isDefault ? team9Config?.credentials?.token : undefined)
ResolveTeam9AccountToken(call) ==
    LET isDefault == call.accountId = "default"
    IN  IF call.env.defined THEN [token |-> call.env.raw, source |-> "env"]
        ELSE IF call.accountToken.defined
        THEN [token |-> call.accountToken.raw, source |-> "config"]
        ELSE IF isDefault /\ call.rootToken.defined
        THEN [token |-> call.rootToken.raw, source |-> "config"]
        ELSE NoToken

EnvToken == <<"E">>
TokenCalls ==
    [op : {"resolveTeam9Token", "resolveTeam9Account"}, accountId : {"default", "work"},
     env : {Undefined, Defined(EnvToken)},
     accountToken : {Undefined, Defined(<<"A">>), Defined(<<" ">>), Defined(<<" ", "A", " ">>)},
     rootToken : {Undefined, Defined(<<"R">>)}]

\* the host resolves the token of an account
ResolveTokenCall ==
    /\ callOut = NoCall
    /\ callIn.op = "resolveTeam9Token"
    /\ callOut' = ResolveTeam9Token(callIn)
    /\ UNCHANGED <<supVars, debVars, flushVars, routeVars, gateVars, callIn, cacheVars>>

\* the same, through resolveTeam9Account of the earlier revision
ResolveAccountTokenCall ==
    /\ callOut = NoCall
    /\ callIn.op = "resolveTeam9Account"
    /\ callOut' = ResolveTeam9AccountToken(callIn)
    /\ UNCHANGED <<supVars, debVars, flushVars, routeVars, gateVars, callIn, cacheVars>>


(***************************************************************************)
(* Reply delivery: the deliver callback of dispatchPreparedTeam9Message    *)
(***************************************************************************)
\* how loading and uploading one media item of a reply goes
MediaOutcomes == {"ok", "loadFails", "uploadFails"}
\* the longest list of media items in one reply, and of replies in one turn
MaxMedia == 2
MaxReplies == 2

\* a call the callback makes: loadWebMedia and uploadMediaToTeam9 of media
\* item `item`, or sendMessage with the attachments that were uploaded
ApiCall(call, item, channelId, parentId, attachments) ==
    [call |-> call, item |-> item, channelId |-> channelId, parentId |-> parentId,
     attachments |-> attachments]

MediaCalls(i, channelId, outcome) ==
    IF outcome = "loadFails" THEN <<ApiCall("loadWebMedia", i, "", "", <<>>)>>
    ELSE <<ApiCall("loadWebMedia", i, "", "", <<>>),
           ApiCall("uploadMediaToTeam9", i, channelId, "", <<>>)>>

RECURSIVE UploadMediaAbort(_, _, _)
\* the loop over mediaUrls without the try / catch around each item: the
\* first failure leaves the loop
UploadMediaAbort(media, i, channelId) ==
    IF i > Len(media) THEN [trace |-> <<>>, attachments |-> <<>>, logged |-> 0, thrown |-> "none"]
    ELSE IF media[i] # "ok"
    THEN [trace |-> MediaCalls(i, channelId, media[i]), attachments |-> <<>>,
          logged |-> 0, thrown |-> "Error"]
    ELSE LET rest == UploadMediaAbort(media, i + 1, channelId)
         IN  [rest EXCEPT !.trace = MediaCalls(i, channelId, media[i]) \o @,
                          !.attachments = <<i>> \o @]

RECURSIVE UploadMedia(_, _, _)
\* for (const mediaUrl of mediaUrls) { try { load; upload; push } catch { log } }
\* from item i on
UploadMedia(media, i, channelId) ==
    IF i > Len(media) THEN [trace |-> <<>>, attachments |-> <<>>, logged |-> 0, thrown |-> "none"]
    ELSE LET rest == UploadMedia(media, i + 1, channelId)
         IN  IF media[i] = "ok"
             THEN [rest EXCEPT !.trace = MediaCalls(i, channelId, media[i]) \o @,
                               !.attachments = <<i>> \o @]
             ELSE [rest EXCEPT !.trace = MediaCalls(i, channelId, media[i]) \o @,
                               !.logged = @ + 1]

NothingDelivered == [trace |-> <<>>, sent |-> FALSE, logged |-> 0, thrown |-> "none"]

\* deliver: nothing for an empty payload; else the media items are uploaded,
\* the message is sent to the channel of the triggering message with its
\* parentId, and whatever is thrown on the way is caught and logged
DeliverReply(message, payload) ==
    IF ~payload.text /\ Len(payload.media) = 0 THEN NothingDelivered
    ELSE LET up    == UploadMedia(payload.media, 1, message.channelId)
             send  == ApiCall("sendMessage", 0, message.channelId, message.parentId,
                              up.attachments)
             sent  == ApiFetch(payload.sendStatus)
             \* try { ... await ctx.api.sendMessage(...) }
             tried == IF up.thrown # "none"
                      THEN [trace |-> up.trace, sent |-> FALSE, logged |-> up.logged,
                            thrown |-> up.thrown]
                      ELSE [trace |-> up.trace \o <<send>>, sent |-> sent.ok,
                            logged |-> up.logged, thrown |-> sent.kind]
             \* catch (err) { console.error(...) }
         IN  IF tried.thrown # "none"
             THEN [tried EXCEPT !.thrown = "none", !.logged = @ + 1]
             ELSE tried

\* the reply dispatcher of the agent runtime handing the replies of one turn
\* to deliver, one after the other
DeliverReplies(message, payloads) ==
    [i \in 1..Len(payloads) |-> DeliverReply(message, payloads[i])]

MediaLists == UNION {[1..n -> MediaOutcomes] : n \in 0..MaxMedia}
ReplyPayloads == [text : BOOLEAN, media : MediaLists, sendStatus : {200, 500}]
\* a reply of text alone, which the server stores or refuses
TextReplies == [text : {TRUE}, media : {<<>>}, sendStatus : {200, 500}]
TextReplyLists == UNION {[1..n -> TextReplies] : n \in 0..(MaxReplies - 1)}
\* the replies of one turn: one reply of any shape among replies of text alone
ReplyLists ==
    {pre \o <<p>> \o post : <<pre, p, post>> \in
        {t \in TextReplyLists \X ReplyPayloads \X TextReplyLists :
            Len(t[1]) + Len(t[3]) < MaxReplies}}
ParentIds == {"", "p1", "p2"}

DeliverCalls ==
    [op : {"deliver"}, message : [channelId : {"c1"}, parentId : {"p1"}],
     payloads : ReplyLists]

\* the agent's replies of one turn are delivered
DeliverCall ==
    /\ callOut = NoCall
    /\ callIn.op = "deliver"
    /\ callOut' = DeliverReplies(callIn.message, callIn.payloads)
    /\ UNCHANGED <<supVars, debVars, flushVars, routeVars, gateVars, callIn, cacheVars>>

(***************************************************************************)
(* A flushed batch answered by the agent: onFlush, preflight, deliver      *)
(***************************************************************************)
\* an inbound message of sender "u1" as handleIncomingMessage hands it to the
\* handler, with the parentId of the thread it was posted in ("" if none)
ThreadedEntry(id, channelId, parentId, content) ==
    [messageId |-> id, channelId |-> channelId, senderId |-> "u1", content |-> content,
     attachments |-> 0, isGroup |-> IsGroupIn(ChannelTypes, channelId), at |-> 0,
     parentId |-> parentId]

\* the batches of one debounce key: one or two messages of one sender in one channel
ThreadedBatches ==
    {<<ThreadedEntry(1, c, p, t)>> : c \in Channels, p \in ParentIds, t \in {TextHi, TextMention}}
        \cup {<<ThreadedEntry(1, c, p, TextHi), ThreadedEntry(2, c, q, t)>> :
                 c \in Channels, p \in ParentIds, q \in ParentIds, t \in {TextHi, TextMention}}

\* the monitor context before and after the bot's userId is known
ReplyContexts ==
    {[botUserId |-> b, botUsername |-> "", requireMention |-> TRUE,
      mentionRegexes |-> {}, allowTextCommands |-> TRUE] : b \in {"", BotId}}

\* the agent's answer: a text, a text with a media item, or two texts of which
\* the server refuses the first
AgentReplies ==
    {<<[text |-> TRUE, media |-> <<>>, sendStatus |-> 200]>>,
     <<[text |-> TRUE, media |-> <<"ok">>, sendStatus |-> 200]>>,
     <<[text |-> TRUE, media |-> <<>>, sendStatus |-> 500],
       [text |-> TRUE, media |-> <<>>, sendStatus |-> 200]>>}

FlushReplyCalls ==
    [op : {"flushReply"}, entries : ThreadedBatches, ctx : ReplyContexts,
     payloads : AgentReplies]

\* onFlush of a batch whose turn the agent answers with the payloads: the
\* merged message goes through the preflight, and the prepared message's
\* replies are delivered (none if the preflight drops the message)
OnFlushReply(call) ==
    LET syntheticMessage == SyntheticMessage(call.entries)
        prepared         == PrepareTeam9Message(call.ctx, syntheticMessage)
    IN  IF prepared = NoPrepared THEN <<>>
        ELSE DeliverReplies(syntheticMessage, call.payloads)

\* the debouncer flushes a batch and the agent answers
FlushReplyCall ==
    /\ callOut = NoCall
    /\ callIn.op = "flushReply"
    /\ callOut' = OnFlushReply(callIn)
    /\ UNCHANGED <<supVars, debVars, flushVars, routeVars, gateVars, callIn, cacheVars>>

(***************************************************************************)
(* Specification of the operations the host calls: a call is drawn, and    *)
(* the operation is applied to it                                          *)
(***************************************************************************)
Calls == RequireMentionCalls \cup SendTextCalls \cup FetchCalls \cup StartAccountCalls
             \cup TokenCalls \cup ActionCalls \cup DispatchCalls \cup DeliverCalls
             \cup FlushReplyCalls

CallInit ==
    /\ SupInit /\ botUserId = "" /\ DebIdle /\ CacheIdle
    /\ dispatched = <<>> /\ effects = <<>>
    /\ routePrev = NoRoute /\ routeCur = NoRoute
    /\ gateIn = NoGate /\ gateOut = NoGate
    /\ callIn \in Calls
    /\ callOut = NoCall

CallNext ==
    \/ ResolveRequireMentionCall
    \/ SendTextCall
    \/ FetchCall
    \/ StartAccountCall
    \/ ResolveTokenCall
    \/ ResolveAccountTokenCall
    \/ HandleActionCall
    \/ MessageActionCall
    \/ DispatchCall
    \/ DeliverCall
    \/ FlushReplyCall

CallSpec == CallInit /\ [][CallNext]_vars

(***************************************************************************)
(* Properties of the connection supervisor                                 *)
(***************************************************************************)
\* the registry holds a Connection for a whose transport client is active
RegisteredActive(a) ==
    /\ activeConnections[a] # NoClient
    /\ clients[activeConnections[a]].isConnected
    /\ clients[activeConnections[a]].socket = "connected"

SupervisorUnchanged ==
    UNCHANGED <<activeConnections, clients, nextClient, watchdogFailures, watchdogInterval>>

\* C1: at most one live Connection per accountId: no two transport clients of
\* the same accountId have their sockets connected at the same time.
AtMostOneLiveConnection ==
    \A c \in ClientIds, d \in ClientIds :
        (c < d /\ d < nextClient /\ clients[c].accountId = clients[d].accountId)
            => ~(clients[c].socket = "connected" /\ clients[d].socket = "connected")

\* C2: in every watchdog scan, an account whose third consecutive unhealthy scan
\* this is gets exactly one rebuild (stale client disconnected, registry entry
\* removed) and its failure counter reset to zero; an account with fewer than
\* three consecutive unhealthy scans gets no rebuild.
ThreeUnhealthyTicksRebuildOnce ==
    [][lastOp'.op = "tick" =>
        \A a \in Accounts :
            /\ (lastTick'[a].class = "unhealthy" /\ unhealthyRun'[a] = 3) =>
                   /\ lastTick'[a].rebuilds = 1
                   /\ watchdogFailures'[a] = 0
                   /\ activeConnections'[a] = NoClient
                   /\ clients'[activeConnections[a]].socket = "null"
            /\ ~(lastTick'[a].class = "unhealthy" /\ unhealthyRun'[a] = 3) =>
                   lastTick'[a].rebuilds = 0]_vars

C2_Witness ==
    /\ lastOp.op = "tick"
    /\ \E a \in Accounts :
          /\ lastTick[a].class = "unhealthy" /\ unhealthyRun[a] = 3
          /\ lastTick[a].rebuilds = 1 /\ lastTick[a].was = 2
          /\ activeConnections[a] = NoClient /\ watchdogFailures[a] = 0
          /\ \E b \in Accounts :
                /\ lastTick[b].class = "unhealthy" /\ unhealthyRun[b] = 2
                /\ lastTick[b].rebuilds = 0 /\ activeConnections[b] # NoClient

\* C3: a watchdog scan that finds an account healthy resets its failure counter
\* to zero and neither rebuilds nor touches its Connection; the counter never
\* exceeds the number of unhealthy scans since the last healthy one.
HealthyTickResetsCounter ==
    [][lastOp'.op = "tick" =>
        \A a \in Accounts :
            /\ lastTick'[a].class = "healthy" =>
                   /\ watchdogFailures'[a] = 0
                   /\ lastTick'[a].rebuilds = 0
                   /\ activeConnections'[a] = activeConnections[a]
                   /\ clients'[activeConnections[a]] = clients[activeConnections[a]]
            /\ watchdogFailures'[a] <= unhealthyRun'[a]]_vars

C3_Witness ==
    /\ lastOp.op = "tick"
    /\ \E a \in Accounts :
          /\ lastTick[a].class = "healthy" /\ lastTick[a].was = 2
          /\ watchdogFailures[a] = 0 /\ RegisteredActive(a)

\* C4: when the reconnect of a watchdog rebuild failed for an account and no
\* connection attempt for it is in flight, the next watchdog scan attempts the
\* rebuild of that account again.
RebuildRetriedAtNextTick ==
    [][lastOp'.op = "tick" =>
        \A a \in Accounts :
            (/\ rebuildFailed[a]
             /\ \A c \in ClientIds : ~(clients[c].accountId = a /\ clients[c].promise = "pending"))
                => lastTick'[a].reconnect # "none"]_vars

\* C5: the watchdog timer is armed only while the connection registry is
\* non-empty.
WatchdogOnlyWithConnections ==
    watchdogInterval => \E a \in Accounts : activeConnections[a] # NoClient

\* C6: a getConnection call for an account whose registered Connection is active
\* returns that Connection and changes nothing: no client is constructed, no
\* socket opened, the registry, the counters and the timer stay as they are.
GetConnectionIdempotent ==
    [][(lastOp'.op = "getConnection" /\ RegisteredActive(lastOp'.accountId)) =>
          /\ lastOp'.outcome = "existing"
          /\ SupervisorUnchanged]_vars

C6_Witness ==
    /\ lastOp.op = "getConnection" /\ lastOp.outcome = "existing"
    /\ RegisteredActive(lastOp.accountId)
    /\ nextClient = 2

\* C7: a getConnection call without a token, for an account with no active
\* registered Connection, fails before any client is constructed and leaves
\* the registry, the counters and the timer unchanged; no client is ever
\* constructed without a token.
NoTokenFailsBeforeConstruction ==
    [][/\ (lastOp'.op = "getConnection" /\ ~lastOp'.token
            /\ ~RegisteredActive(lastOp'.accountId)) =>
              /\ lastOp'.outcome = "noToken"
              /\ SupervisorUnchanged
       /\ \A c \in ClientIds : clients'[c].token]_vars

C7_Witness ==
    /\ lastOp.op = "getConnection" /\ lastOp.outcome = "noToken" /\ ~lastOp.token
    /\ activeConnections[lastOp.accountId] # NoClient


(***************************************************************************)
(* Properties of the inbound debounce stage                                *)
(***************************************************************************)
\* an entry the bypass rule does not apply to: no attachment, text left after
\* stripping the markup, no control command, a sender
\* the raw contents of the runs, those whose stripped text holds a control
\* command, and those with stripped text and no command
RawContents == {m.content : m \in Inbound}
CommandContents == {c \in RawContents : Contains(StripHtml(c), ControlCommand)}
TextContents == {c \in RawContents : StripHtml(c) # <<>>} \ CommandContents

Plain(e) ==
    /\ e.attachments = 0
    /\ e.senderId # ""
    /\ e.content \in TextContents

IsCommandEntry(e) == e.content \in CommandContents

LastBatch == lastFlush[Len(lastFlush)]

\* m1 and m2 are both pending for key k after the step, m1 before m2, m2 last
PendingTogether(k, m1, m2) ==
    /\ buffers'[k] # <<>>
    /\ buffers'[k][Len(buffers'[k])] = m2
    /\ \E p \in 1..(Len(buffers'[k]) - 1) : buffers'[k][p] = m1

\* a timer flush hands the whole pending batch of its key to onFlush, once and
\* in order, and clears the key
TimerFlushesWholeBatch ==
    (lastIn' = NoEntry /\ lastFlush' # <<>>) =>
        \E k \in Keys : /\ buffers[k] # <<>>
                         /\ lastFlush' = <<buffers[k]>>
                         /\ buffers'[k] = <<>> /\ due'[k] = 0

PendingInArrivalOrder ==
    \A k \in Keys : \A p \in 1..Len(buffers[k]), q \in 1..Len(buffers[k]) :
        p < q => buffers[k][p].messageId < buffers[k][q].messageId

\* C8 as stated: any message enqueued for a key within the quiet window of an
\* earlier message of that key joins that message's pending batch, behind it.
AnyTwoWithinWindowMerged ==
    [][(lastIn' # NoEntry /\ ObservedKey(lastIn') \in Keys) =>
          \A i \in 1..Len(recent[ObservedKey(lastIn')]) :
              recent[ObservedKey(lastIn')][i].at + DebounceMs > now =>
                  PendingTogether(ObservedKey(lastIn'),
                                  recent[ObservedKey(lastIn')][i], lastIn')]_vars

\* C8 amended: two messages of one key that the bypass rule does not apply to,
\* the second enqueued within the quiet window of the first with no bypassing
\* message of that key between them, are pending together in arrival order,
\* and the timer hands the whole pending batch to one flush, in that order.
PlainPairWithinWindowMerged ==
    [][/\ (lastIn' # NoEntry /\ ObservedKey(lastIn') \in Keys /\ Plain(lastIn')) =>
           \A i \in 1..Len(recent[ObservedKey(lastIn')]) :
               (/\ recent[ObservedKey(lastIn')][i].at + DebounceMs > now
                /\ \A j \in i..Len(recent[ObservedKey(lastIn')]) :
                       Plain(recent[ObservedKey(lastIn')][j]))
                   => PendingTogether(ObservedKey(lastIn'),
                                      recent[ObservedKey(lastIn')][i], lastIn')
       /\ TimerFlushesWholeBatch
       /\ PendingInArrivalOrder']_vars

C8_Witness ==
    /\ lastIn = NoEntry
    /\ Len(lastFlush) = 1
    /\ Len(lastFlush[1]) = 2
    /\ lastFlush[1][1].at < lastFlush[1][2].at
    /\ lastFlush[1][1].messageId < lastFlush[1][2].messageId
    /\ lastFlush[1][1].content # lastFlush[1][2].content

\* C9: a message with an attachment is never pending in a batch, is flushed in
\* the step that enqueues it as a batch of its own, and no flushed batch holds
\* an attachment message together with another message.
AttachmentFlushedAlone ==
    /\ \A k \in Keys : \A p \in 1..Len(buffers[k]) : buffers[k][p].attachments = 0
    /\ \A b \in 1..Len(lastFlush) :
          (\E p \in 1..Len(lastFlush[b]) : lastFlush[b][p].attachments > 0)
              => Len(lastFlush[b]) = 1
    /\ lastIn.attachments > 0 => (lastFlush # <<>> /\ LastBatch = <<lastIn>>)

C9_Witness ==
    /\ lastIn.attachments > 0
    /\ Len(lastFlush) = 2
    /\ Len(lastFlush[1]) = 2
    /\ lastFlush[2] = <<lastIn>>
    /\ buffers[ObservedKey(lastIn)] = <<>>

\* C10: a message whose stripped content contains a control command is never
\* pending in a batch, is flushed in the step that enqueues it as a batch of
\* its own, and no flushed batch holds it together with another message.
CommandFlushedAlone ==
    /\ \A k \in Keys : \A p \in 1..Len(buffers[k]) : ~IsCommandEntry(buffers[k][p])
    /\ \A b \in 1..Len(lastFlush) :
          (\E p \in 1..Len(lastFlush[b]) : IsCommandEntry(lastFlush[b][p]))
              => Len(lastFlush[b]) = 1
    /\ IsCommandEntry(lastIn) => (lastFlush # <<>> /\ LastBatch = <<lastIn>>)

C10_Witness ==
    /\ lastIn.content = TextCmdHtml
    /\ StripHtml(lastIn.content) = ControlCommand
    /\ Len(lastFlush) = 2
    /\ lastFlush[2] = <<lastIn>>
    /\ due[ObservedKey(lastIn)] = 0

(***************************************************************************)
(* Properties of the flush stage                                           *)
(***************************************************************************)
RECURSIVE MergedText(_, _)
\* the contents of the first n entries of a batch, each on a line of its own
MergedText(batch, n) ==
    IF n = 1 THEN batch[1].content
    ELSE MergedText(batch, n - 1) \o <<"\n">> \o batch[n].content

\* C11: the message made of a flushed batch of more than one entry carries the
\* entries' contents in arrival order separated by single newlines, a singleton
\* batch is passed through unchanged, and a merged direct-message batch is
\* dispatched with the stripped merged text as its body.
MergedContentJoinsLines ==
    \A b \in 1..Len(lastFlush) :
        /\ Len(lastFlush[b]) = 1 => SyntheticMessage(lastFlush[b]) = lastFlush[b][1]
        /\ Len(lastFlush[b]) > 1 =>
              /\ SyntheticMessage(lastFlush[b]).content
                     = MergedText(lastFlush[b], Len(lastFlush[b]))
              /\ SyntheticMessage(lastFlush[b]).messageId
                     = lastFlush[b][Len(lastFlush[b])].messageId
              /\ ~lastFlush[b][1].isGroup =>
                    \E d \in 1..Len(dispatched) :
                        dispatched[d].Body
                            = StripHtml(MergedText(lastFlush[b], Len(lastFlush[b])))

C11_Witness ==
    /\ Len(lastFlush) = 1
    /\ Len(lastFlush[1]) = 2
    /\ lastFlush[1][1].content = TextHi
    /\ lastFlush[1][2].content = TextYo
    /\ Len(dispatched) = 1
    /\ dispatched[1].Body = <<"h", "i", "\n", "y", "o">>

\* C12: a merged batch of n > 1 messages that is dispatched carries the ids of
\* all its messages in arrival order: n entries in the list, the first id that
\* of the first message and the last id that of the last message.
MergedIdsRetained ==
    \A b \in 1..Len(lastFlush) :
        Len(lastFlush[b]) > 1 =>
            /\ ~lastFlush[b][1].isGroup =>
                  \E d \in 1..Len(dispatched) :
                      dispatched[d].MessageSid = lastFlush[b][Len(lastFlush[b])].messageId
            /\ \A d \in 1..Len(dispatched) :
                  dispatched[d].MessageSid = lastFlush[b][Len(lastFlush[b])].messageId =>
                      /\ dispatched[d].MessageSids
                             = [i \in 1..Len(lastFlush[b]) |-> lastFlush[b][i].messageId]
                      /\ dispatched[d].MessageSidFirst = lastFlush[b][1].messageId
                      /\ dispatched[d].MessageSidLast
                             = lastFlush[b][Len(lastFlush[b])].messageId

C12_Witness ==
    /\ Len(dispatched) = 1
    /\ Len(dispatched[1].MessageSids) = 2
    /\ dispatched[1].MessageSidFirst = dispatched[1].MessageSids[1]
    /\ dispatched[1].MessageSidLast = dispatched[1].MessageSids[2]
    /\ dispatched[1].MessageSidFirst < dispatched[1].MessageSidLast

UnmentionedGroupBatch(batch) ==
    /\ batch # <<>>
    /\ \A i \in 1..Len(batch) :
          /\ ChannelTypes[batch[i].channelId] # "direct"
          /\ batch[i].content \in TextContents \ {TextMention}

\* C20: a group message the gate skips (mention required, the bot's identity
\* known, no mention of the bot and no control command in the text) is dropped:
\* the step that flushes it makes no dispatch call for it, and every reply and
\* typing signal of the step belongs to a dispatch call that was made
SkippedGroupMessageDropped ==
    /\ \A b \in 1..Len(lastFlush) :
          (MonitorCtx.botUserId # "" /\ UnmentionedGroupBatch(lastFlush[b])) =>
              \A p \in 1..Len(dispatched) :
                  \A i \in 1..Len(lastFlush[b]) :
                      /\ dispatched[p].MessageSid # lastFlush[b][i].messageId
                      /\ \A j \in 1..Len(dispatched[p].MessageSids) :
                            dispatched[p].MessageSids[j] # lastFlush[b][i].messageId
    /\ Len(effects) = 3 * Len(dispatched)
    /\ \A e \in 1..Len(effects) :
          effects[e].channelId = dispatched[((e - 1) \div 3) + 1].To
    /\ ((\A b \in 1..Len(lastFlush) : UnmentionedGroupBatch(lastFlush[b]))
            /\ MonitorCtx.botUserId # "")
          => (dispatched = <<>> /\ effects = <<>>)

\* the quiet window of two unmentioned group messages ended, and nothing left
C20_Witness ==
    /\ lastIn = NoEntry
    /\ Len(lastFlush) = 1
    /\ Len(lastFlush[1]) = 2
    /\ UnmentionedGroupBatch(lastFlush[1])
    /\ lastFlush[1][1].isGroup
    /\ dispatched = <<>>
    /\ effects = <<>>

(***************************************************************************)
(* Properties of the router                                                *)
(***************************************************************************)
\* two turns have been routed, both for the same account
TwoTurns == routePrev # NoRoute /\ routePrev.args.accountId = routeCur.args.accountId

\* the isolation context of a turn: the sender of a direct message, the
\* channel of a group message
IsolationContext(a) ==
    IF a.isGroup THEN <<a.accountId, "group", a.channelId>>
    ELSE <<a.accountId, "dm", a.senderId>>

\* C14 as stated: two direct-message turns of one account with different
\* senderIds get different agent ids.
DistinctSendersDistinctAgents ==
    (/\ TwoTurns
     /\ ~routePrev.args.isGroup /\ ~routeCur.args.isGroup
     /\ routePrev.args.senderId # routeCur.args.senderId)
        => routePrev.route.agentId # routeCur.route.agentId

\* C15 as stated: two turns of one account have the same session key exactly
\* when they belong to the same isolation context.
SessionKeyPerIsolationContext ==
    TwoTurns =>
        ((routePrev.route.sessionKey = routeCur.route.sessionKey)
            <=> (IsolationContext(routePrev.args) = IsolationContext(routeCur.args)))

BotExplicitlyMentioned ==
    gateIn.ctx.botUserId = BotId /\ gateIn.message.content = TextMention
BotRegexMatched ==
    gateIn.ctx.mentionRegexes # {} /\ gateIn.message.content = TextAtBot
CommandPresent == gateIn.message.content \in {TextCmd, TextAtCmd}
DetectionPossible ==
    \/ gateIn.ctx.botUserId # ""
    \/ gateIn.ctx.botUsername # ""
    \/ gateIn.ctx.mentionRegexes # {}

\* C17 as stated: with requireMention true, no explicit mention of the bot, no
\* regex match and no control command, the group message is skipped.
UnmentionedIsSkipped ==
    (/\ gateOut # NoGate
     /\ gateIn.ctx.requireMention
     /\ ~BotExplicitlyMentioned /\ ~BotRegexMatched /\ ~CommandPresent)
        => gateOut.shouldSkip

\* C17 amended: the same when mention detection is possible (the bot's userId
\* or username is known, or a mention regex exists); the preflight then
\* returns nothing for the message.
UnmentionedIsSkippedWhenDetectable ==
    (/\ gateOut # NoGate
     /\ gateIn.ctx.requireMention
     /\ DetectionPossible
     /\ ~BotExplicitlyMentioned /\ ~BotRegexMatched /\ ~CommandPresent)
        => (gateOut.shouldSkip /\ ~gateOut.prepared)

C17_Witness ==
    /\ gateOut # NoGate
    /\ gateIn.ctx.requireMention
    /\ gateIn.ctx.botUserId = BotId
    /\ gateIn.message.content = TextMentionOther
    /\ gateOut.shouldSkip
    /\ ~gateOut.prepared

UndetectableNeverSkips ==
    (gateOut # NoGate /\ ~DetectionPossible) => (~gateOut.shouldSkip /\ gateOut.prepared)

C19_Witness ==
    /\ gateOut # NoGate
    /\ ~DetectionPossible
    /\ gateIn.ctx.requireMention
    /\ gateIn.message.content = TextHi
    /\ ~gateIn.ctx.allowTextCommands
    /\ ~gateOut.shouldSkip
    /\ gateOut.prepared

(***************************************************************************)
(* Properties of the requireMention lookup                                 *)
(***************************************************************************)
RequireMentionResolved == callOut # NoCall /\ callIn.op = "resolveRequireMention"

\* the levels of the lookup chain, for the call at hand
AccountChannelSetting ==
    IF callIn.accountId # "" /\ callIn.groupId # "" THEN callIn.cfg.accountGroups.chan
    ELSE "absent"
RootChannelSetting == IF callIn.groupId # "" THEN callIn.cfg.groups.chan ELSE "absent"
WildcardSettings ==
    {callIn.cfg.groups.star}
        \cup (IF callIn.accountId # "" THEN {callIn.cfg.accountGroups.star} ELSE {})

\* C21: requireMention is the per-account per-channel setting if that is a
\* boolean, else the root-level per-channel setting if that is a boolean, else
\* a wildcard "*" setting that is a boolean, else true
RequireMentionFollowsChain ==
    RequireMentionResolved =>
        IF IsBooleanSetting(AccountChannelSetting)
        THEN callOut.value = (AccountChannelSetting = "true")
        ELSE IF IsBooleanSetting(RootChannelSetting)
        THEN callOut.value = (RootChannelSetting = "true")
        ELSE IF \E w \in WildcardSettings : IsBooleanSetting(w)
        THEN \E w \in WildcardSettings :
                 IsBooleanSetting(w) /\ callOut.value = (w = "true")
        ELSE callOut.value = TRUE

(***************************************************************************)
(* Properties of outbound delivery                                         *)
(***************************************************************************)
SentToUser ==
    /\ callOut # NoCall
    /\ callIn.op = "sendText"
    /\ StartsWith(callIn.to, UserPrefix)

\* the REST calls of the send went through
SendSucceeded ==
    /\ callIn.configured
    /\ callIn.connect = "connected"
    /\ callIn.dmStatus = 200
    /\ callIn.sendStatus = 200

\* C22: sendText to "user:<id>" resolves or creates the direct channel with
\* that user before it delivers, delivers to the resolved channel's id and
\* never to the raw target, and, the REST calls having succeeded, returns
\* status sent with the new message's id
SendTextResolvesDmFirst ==
    SentToUser =>
        /\ \A i \in 1..Len(callOut.trace) :
              callOut.trace[i].call = "sendMessage" =>
                  /\ i > 1
                  /\ callOut.trace[i - 1] =
                        [call |-> "getOrCreateDmChannel", arg |-> StripUserPrefix(callIn.to)]
                  /\ callOut.trace[i].arg = DmChannelId(StripUserPrefix(callIn.to))
                  /\ callOut.trace[i].arg # callIn.to
        /\ SendSucceeded =>
              /\ Len(callOut.trace) = 2
              /\ callOut.trace[2].call = "sendMessage"
              /\ callOut.result.status = "sent"
              /\ callOut.result.messageId = NewMessageId
        /\ callOut.result.status = "sent" => SendSucceeded

C22_Witness ==
    /\ SentToUser
    /\ callIn.to = UserPrefix \o <<"4", "2">>
    /\ callOut.trace = <<[call |-> "getOrCreateDmChannel", arg |-> <<"4", "2">>],
                         [call |-> "sendMessage", arg |-> <<"d", "m", "-", "4", "2">>]>>
    /\ callOut.result.status = "sent"
    /\ callOut.result.messageId = NewMessageId

(***************************************************************************)
(* Properties of error kinds                                               *)
(***************************************************************************)
\* C23: authentication failures surface as the auth-specific error kind and
\* are not retried: a REST call answered 401 or 403 throws Team9AuthError and
\* no other failure does, and an account start whose transport connect is
\* rejected by the server's authentication throws Team9AuthError after a
\* single connect, with no registry entry installed
AuthFailuresAreAuthErrors ==
    /\ (callOut # NoCall /\ callIn.op = "fetch") =>
          (callOut.kind = "Team9AuthError") = (callIn.status \in {401, 403})
    /\ (callOut # NoCall /\ callIn.op = "startAccount" /\ callIn.token) =>
          /\ (callOut.thrown = "Team9AuthError") = (callIn.event = "auth_error")
          /\ callIn.event = "auth_error" => (callOut.connects = 1 /\ ~callOut.installed)

(***************************************************************************)
(* Properties of token resolution                                          *)
(***************************************************************************)
TokenResolved ==
    callOut # NoCall /\ callIn.op \in {"resolveTeam9Token", "resolveTeam9Account"}

\* C24: with a token in the environment, the default account resolves to the
\* environment's token whatever the config holds, and a non-default account
\* never resolves to it
EnvTokenForDefaultAccountOnly ==
    (TokenResolved /\ callIn.env.defined) =>
        IF callIn.accountId = "default"
        THEN callOut.token = EnvToken /\ callOut.source = "env"
        ELSE callOut.token # EnvToken /\ callOut.source # "env"

(***************************************************************************)
(* Properties of the message actions                                       *)
(***************************************************************************)
ActionFailed ==
    /\ callOut # NoCall
    /\ callIn.op \in {"handleAction", "messageAction"}
    /\ callIn.action # "pin"
    /\ (callIn.connect # "connected" \/ callIn.status # 200)

\* C25: an edit, delete or react action whose connection acquisition or REST
\* call fails returns an error result and throws nothing
ActionFailuresAreResults ==
    ActionFailed => (callOut.thrown = "none" /\ ~callOut.result.success)

(***************************************************************************)
(* Properties of cross-account isolation                                   *)
(***************************************************************************)
\* the step leaves the account's registry entry and failure counter alone
RegistryUntouched(b) ==
    /\ activeConnections'[b] = activeConnections[b]
    /\ watchdogFailures'[b] = watchdogFailures[b]

\* the step leaves the pending batches and timers of the monitor context alone
BatchesUntouched == buffers' = buffers /\ due' = due

\* the step leaves everything the account owns alone
AccountUntouched(b) ==
    /\ RegistryUntouched(b)
    /\ (b = CtxAccount) => BatchesUntouched

\* the step is a host call for the account, or an event of one of its sockets
StepOfAccount(a) ==
    \/ StartAccount(a)
    \/ Outbound(a)
    \/ HandleAction(a)
    \/ StopAccount(a)
    \/ \E c \in ClientIds :
          /\ clients[c].accountId = a
          /\ (Authenticated(c) \/ AuthError(c) \/ ConnectError(c) \/ SocketDisconnect(c))

\* what a watchdog scan does to an account follows from that account's own
\* entry, counter and health, whatever the scan does to the other accounts
ScanOfAccountOnly(b) ==
    /\ lastTick'[b].class = "none" => RegistryUntouched(b)
    /\ lastTick'[b].class = "healthy" =>
          (activeConnections'[b] = activeConnections[b] /\ watchdogFailures'[b] = 0)
    /\ lastTick'[b].class = "unhealthy" =>
          IF watchdogFailures[b] + 1 >= 3
          THEN activeConnections'[b] = NoClient /\ watchdogFailures'[b] = 0
          ELSE /\ activeConnections'[b] = activeConnections[b]
               /\ watchdogFailures'[b] = watchdogFailures[b] + 1
    /\ (lastTick'[b].class = "none") = (activeConnections[b] = NoClient)

TornDown(cl) == cl.socket = "null" /\ ~cl.heartbeatInterval /\ ~cl.isConnected

\* C27: a watchdog scan that rebuilds an account leaves the stale client torn
\* down (socket disconnected, heartbeat stopped) and out of the registry; the
\* client the rebuild starts connecting is another one and is not installed
\* yet; and the registry never holds a client that was torn down
StaleTornDownBeforeRebuild ==
    [][/\ \A a \in Accounts :
             (lastOp'.op = "tick" /\ lastTick'[a].rebuilds > 0) =>
                 /\ activeConnections[a] # NoClient
                 /\ TornDown(clients'[activeConnections[a]])
                 /\ activeConnections'[a] = NoClient
                 /\ lastTick'[a].reconnect = "connecting" =>
                       \E d \in ClientIds \ {activeConnections[a]} :
                           /\ clients[d] = FreshClient
                           /\ clients'[d].accountId = a
                           /\ clients'[d].socket = "connecting"
                           /\ clients'[d].byWatchdog
       /\ \A a \in Accounts :
             activeConnections'[a] # NoClient =>
                 ~TornDown(clients'[activeConnections'[a]])]_vars

\* a scan has torn the stale client down and started the new one connecting
C27_Witness ==
    /\ lastOp.op = "tick"
    /\ \E a \in Accounts :
          /\ lastTick[a].rebuilds > 0
          /\ lastTick[a].reconnect = "connecting"
          /\ activeConnections[a] = NoClient
          /\ \E c \in ClientIds, d \in ClientIds :
                /\ clients[c].accountId = a /\ TornDown(clients[c])
                /\ clients[d].accountId = a /\ clients[d].byWatchdog
                /\ clients[d].socket = "connecting"

(***************************************************************************)
(* Properties of connect failures                                          *)
(***************************************************************************)
\* C28: a transport-level connect failure fails the pending connect() of
\* getConnection only when the transport has given up reconnecting: connect()
\* is not rejected while the socket is still retrying
ConnectFailureSurfacedWhenExhausted ==
    [][\A c \in ClientIds :
          (clients[c].promise = "pending" /\ clients'[c].promise = "rejected") =>
              clients'[c].socket # "connecting"]_vars

(***************************************************************************)
(* Properties of the registry's entries                                    *)
(***************************************************************************)
\* C29: the registry never exposes a half-built Connection. A key's entry
\* changes only by being removed or by being set to the client whose connect()
\* resolves in that step, authenticated and built for that account; a step
\* that rejects a connect() changes no entry; and every client in the registry
\* is one whose connect() resolved
NoHalfBuiltConnection ==
    [][/\ \A a \in Accounts :
             activeConnections'[a] # activeConnections[a] =>
                 \/ activeConnections'[a] = NoClient
                 \/ /\ clients[activeConnections'[a]].promise = "pending"
                    /\ clients'[activeConnections'[a]].promise = "resolved"
                    /\ clients'[activeConnections'[a]].accountId = a
                    /\ clients'[activeConnections'[a]].isConnected
                    /\ clients'[activeConnections'[a]].socket = "connected"
       /\ (\E c \in ClientIds :
              clients[c].promise = "pending" /\ clients'[c].promise = "rejected")
             => activeConnections' = activeConnections
       /\ \A a \in Accounts :
             activeConnections'[a] # NoClient =>
                 clients'[activeConnections'[a]].promise = "resolved"]_vars

\* a connect of the account failed and installed nothing; a later one
\* succeeded and its client is the entry
C29_Witness ==
    \E a \in Accounts : \E c \in ClientIds, d \in ClientIds :
        /\ activeConnections[a] = c
        /\ clients[c].accountId = a
        /\ clients[c].promise = "resolved"
        /\ d < c
        /\ clients[d].accountId = a
        /\ clients[d].promise = "rejected"

(***************************************************************************)
(* Properties of the dispatch cleanup                                      *)
(***************************************************************************)
Dispatched == callOut # NoCall /\ callIn.op = "dispatch"

\* C30: a dispatch marks the dispatcher idle exactly once, after whatever the
\* agent did, whether the agent runtime's dispatch call returned or threw, and
\* lets no exception out
DispatcherIdleExactlyOnce ==
    Dispatched =>
        /\ callOut.idle = 1
        /\ callOut.thrown = "none"
        /\ callOut.effects # <<>>
        /\ \A i \in 1..Len(callOut.effects) :
              (callOut.effects[i].kind = "stopTyping") = (i = Len(callOut.effects))

\* the agent delivered a reply and then threw
C30_Witness ==
    /\ Dispatched
    /\ callIn.agent.throws
    /\ callIn.agent.replies
    /\ callOut.idle = 1
    /\ Len(callOut.effects) = 3
    /\ callOut.effects[3].kind = "stopTyping"

(***************************************************************************)
(* Properties of reply delivery                                            *)
(***************************************************************************)
Delivered == callIn # NoCall /\ callIn.op = "deliver" /\ callOut # NoCall

\* the calls of one delivery attempt that are `call`
CallsOf(attempt, call) == SelectSeq(attempt.trace, LAMBDA e : e.call = call)

\* the media items of a payload that load and upload
UploadedItems(payload) ==
    SelectSeq([i \in 1..Len(payload.media) |-> i], LAMBDA i : payload.media[i] = "ok")

\* C31: delivering a reply never throws; every media item of a reply is
\* attempted whatever happened to the items before it, the message is then
\* sent once with the items that were uploaded, and every reply of the turn
\* is attempted whatever happened to the replies before it
DeliveryFailuresContained ==
    Delivered =>
        /\ Len(callOut) = Len(callIn.payloads)
        /\ \A n \in 1..Len(callOut) :
              LET payload == callIn.payloads[n]
                  attempt == callOut[n]
                  sends   == CallsOf(attempt, "sendMessage")
              IN  /\ attempt.thrown = "none"
                  /\ (payload.text \/ Len(payload.media) > 0) =>
                        /\ Len(CallsOf(attempt, "loadWebMedia")) = Len(payload.media)
                        /\ Len(sends) = 1
                        /\ attempt.trace[Len(attempt.trace)].call = "sendMessage"
                        /\ sends[1].attachments = UploadedItems(payload)
                        /\ attempt.sent = (payload.sendStatus = 200)

\* the first media item of a reply failed to upload and the send of that reply
\* was refused; the second item was uploaded, and the next reply was sent
C31_Witness ==
    /\ Delivered
    /\ Len(callIn.payloads) = 2
    /\ callIn.payloads[1].media = <<"uploadFails", "ok">>
    /\ callIn.payloads[1].sendStatus = 500
    /\ CallsOf(callOut[1], "sendMessage")[1].attachments = <<2>>
    /\ ~callOut[1].sent
    /\ callOut[2].sent

(***************************************************************************)
(* Properties of the reply's destination                                   *)
(***************************************************************************)
FlushAnswered == callIn # NoCall /\ callIn.op = "flushReply" /\ callOut # NoCall

\* the message of the batch that triggered the turn: its last one
TriggeringMessage == callIn.entries[Len(callIn.entries)]

\* C32: every reply sent for a turn goes to the channel on which the
\* triggering message arrived, with that message's parentId; for a merged
\* batch these are the channel and the parentId of the batch's last message
RepliesGoToOriginatingThread ==
    FlushAnswered =>
        \A n \in 1..Len(callOut) : \A i \in 1..Len(callOut[n].trace) :
            LET e == callOut[n].trace[i] IN
            /\ e.call = "sendMessage" =>
                  /\ e.channelId = TriggeringMessage.channelId
                  /\ e.parentId = TriggeringMessage.parentId
                  /\ \A k \in 1..Len(callIn.entries) :
                        callIn.entries[k].channelId = e.channelId
            /\ e.call = "uploadMediaToTeam9" => e.channelId = TriggeringMessage.channelId

\* two messages posted in different threads of a group channel were merged,
\* and the reply was sent into the thread of the second
C32_Witness ==
    /\ FlushAnswered
    /\ Len(callIn.entries) = 2
    /\ callIn.entries[1].parentId = "p1"
    /\ callIn.entries[2].parentId = "p2"
    /\ callIn.entries[2].isGroup
    /\ Len(callOut) = 1
    /\ \E i \in 1..Len(callOut[1].trace) :
          /\ callOut[1].trace[i].call = "sendMessage"
          /\ callOut[1].trace[i].parentId = "p2"
          /\ callOut[1].sent

(***************************************************************************)
(* Properties of stopAccount                                               *)
(***************************************************************************)
\* the account has a transport client whose socket is connected
HasConnectedClient(a) ==
    \E c \in ClientIds : clients[c].accountId = a /\ clients[c].socket = "connected"

\* the step is the host asking for a connection of the account
ConnectionRequested(a) == lastOp'.op = "getConnection" /\ lastOp'.accountId = a

\* C34: once stopAccount has returned for an account, the account has no
\* registry entry and no connected transport client, and the next step gives
\* it neither unless it is a getConnection for that account
StoppedAccountStaysStopped ==
    [][\A a \in Accounts :
          (lastOp.op = "stopAccount" /\ lastOp.accountId = a) =>
              /\ activeConnections[a] = NoClient
              /\ ~HasConnectedClient(a)
              /\ ConnectionRequested(a)
                    \/ (activeConnections'[a] = NoClient /\ ~HasConnectedClient(a)')]_vars

(***************************************************************************)
(* Properties of rejected clients                                          *)
(***************************************************************************)
\* C35: a transport client whose connect() was rejected is never marked
\* connected, never runs its heartbeat and is never a registry entry
RejectedClientStaysInactive ==
    \A c \in ClientIds :
        clients[c].promise = "rejected" =>
            /\ ~clients[c].isConnected
            /\ ~clients[c].heartbeatInterval
            /\ \A a \in Accounts : activeConnections[a] # c

(***************************************************************************)
(* Properties of the agent identifiers                                     *)
(***************************************************************************)
\* C38: the agent ids of two turns differ when one turn is a group turn and
\* the other a direct one, and when the two turns belong to different accounts
AgentIdsOfContextsDistinct ==
    routePrev # NoRoute =>
        /\ routePrev.args.isGroup # routeCur.args.isGroup
              => routePrev.route.agentId # routeCur.route.agentId
        /\ routePrev.args.accountId # routeCur.args.accountId
              => routePrev.route.agentId # routeCur.route.agentId

(***************************************************************************)
(* Properties of the self-message filter                                   *)
(***************************************************************************)
\* the bot is the sender of one of the entries
FromBot(entries) == \E i \in 1..Len(entries) : entries[i].senderId = botUserId

\* C39: with the bot's userId known, no message sent by the bot is enqueued,
\* waits in a batch, is flushed in a batch or is dispatched
SelfMessagesFiltered ==
    botUserId # "" =>
        /\ lastIn.senderId # botUserId
        /\ \A k \in Keys : ~FromBot(buffers[k])
        /\ \A b \in 1..Len(lastFlush) : ~FromBot(lastFlush[b])
        /\ \A p \in 1..Len(dispatched) : dispatched[p].SenderId # botUserId

\* the first message of the run came from the bot itself, and nothing was
\* enqueued, flushed or dispatched for it
C39_Witness ==
    /\ botUserId = BotId
    /\ received = 1 /\ now = 0
    /\ lastIn = NoEntry
    /\ \A k \in Keys : buffers[k] = <<>>
    /\ lastFlush = <<>> /\ dispatched = <<>>

(***************************************************************************)
(* Properties of the failure counters                                      *)
(***************************************************************************)
\* every stored count is 1 or 2, and only accounts with a registry entry have one
CountersWithinRegistry ==
    \A a \in Accounts :
        /\ watchdogFailures[a] \in 0..2
        /\ watchdogFailures[a] > 0 => activeConnections[a] # NoClient

\* C40: after every watchdog tick and every stopAccount, each stored failure
\* count is 1 or 2 and belongs to an account that has a registry entry
FailureCountersBounded ==
    lastOp.op \in {"tick", "stopAccount"} => CountersWithinRegistry

\* stopAccount has removed one account while the other account, counted
\* unhealthy twice, keeps its entry and its count
C40_Witness ==
    /\ lastOp.op = "stopAccount"
    /\ activeConnections[lastOp.accountId] = NoClient
    /\ watchdogFailures[lastOp.accountId] = 0
    /\ \E b \in Accounts : watchdogFailures[b] = 2 /\ activeConnections[b] # NoClient

(***************************************************************************)
(* Properties of the classification of inbound messages                    *)
(***************************************************************************)
\* the step handled an inbound message that passed the self-message filter
MessageHandled == received' = received + 1 /\ lastIn' # NoEntry

\* C37: an inbound message is classified as not a group message exactly when
\* the cache holds "direct" for its channel at the moment it is handled;
\* with "public", "private" or nothing cached it is a group message
IsGroupFollowsCache ==
    [][MessageHandled =>
          /\ ~lastIn'.isGroup <=> channelTypes[lastIn'.channelId] = "direct"
          /\ channelTypes[lastIn'.channelId] \in {"public", "private", "none"}
                => lastIn'.isGroup]_vars

\* a message was handled in a channel cached as private and classified as a
\* group message
C37_Witness ==
    /\ lastIn # NoEntry
    /\ channelTypes[lastIn.channelId] = "private"
    /\ lastIn.isGroup
    /\ channelFetch = {}

\* C36: a message sent in a direct channel is never classified as a group
\* message, whatever the order of channel events, metadata answers and messages
DirectNeverGroup ==
    (lastIn # NoEntry /\ ChannelTypes[lastIn.channelId] = "direct") => ~lastIn.isGroup

(***************************************************************************)
(* Properties of the metadata requests                                     *)
(***************************************************************************)
\* C33: a failed request for the bot's profile, for the list of channels or
\* for a joined channel's metadata leaves the account started (connect()
\* resolved, the connection registered, the watchdog armed), and a message
\* handled afterwards in a channel without a cached kind is classified by
\* the default, as a group message
MetadataFailuresDontBlockStartup ==
    /\ [](metaFailed # {} =>
            /\ clients[CtxClient].promise = "resolved"
            /\ activeConnections[CtxAccount] # NoClient
            /\ watchdogInterval)
    /\ [][(metaFailed # {} /\ MessageHandled /\ channelTypes[lastIn'.channelId] = "none")
             => lastIn'.isGroup]_vars
    /\ [][metaFailed' # metaFailed => UNCHANGED <<supVars, debVars>>]_vars

\* the profile and the channel list could not be fetched; the account is
\* registered, and a command in a channel announced later was dispatched as a
\* group message
C33_Witness ==
    /\ {"getMe", "getUserChannels"} \subseteq metaFailed
    /\ activeConnections[CtxAccount] = CtxClient
    /\ lastIn # NoEntry /\ lastIn.isGroup
    /\ channelTypes[lastIn.channelId] = "none"
    /\ Len(dispatched) = 1

====
